---- MODULE Spec2Model ----
(***************************************************************************)
(* A model of the keai tree-walking evaluator (package evaluator): the     *)
(* value universe, the environment chain, the node handlers of             *)
(* evalContext and the module import cache.                                *)
(*                                                                         *)
(* The interpreter is single threaded.  One step of the model is the       *)
(* evaluation of one top-level statement of the running program in the     *)
(* global environment; everything the statement's handler calls is part    *)
(* of that step.                                                           *)
(***************************************************************************)
EXTENDS Integers, Sequences, FiniteSets, TLC

VARIABLES
    scopes,       \* the environments that are alive: scopes[1] is the global one
    importCache,  \* evaluator.importCache: literal path -> Module
    evalCount,    \* per module name: how often EvalModule evaluated its source
    serial,       \* number of Module objects allocated so far (object identity)
    exit,         \* whether the process has ended, and with which exit code
    last,         \* the statement evaluated last, its result and the heap around it
    ctx           \* the context.Context of the evalContext call that is in progress

vars == <<scopes, importCache, evalCount, serial, exit, last, ctx>>

(***************************************************************************)
(* Bounds of the model.                                                    *)
(***************************************************************************)
\* Integers are int64 in the program; the model keeps the two's-complement
\* wrap-around at a smaller width.
IntWidth == 3
\* Depth of nested EvalModule calls at which the Go stack is taken to be
\* exhausted (the runtime ends the process with a stack overflow).
MaxImportDepth == 3
\* Iterations of a `for` loop after which the run is taken not to terminate.
MaxLoopIters == 3

Modulus == 2 ^ IntWidth
MinInt == 0 - (2 ^ (IntWidth - 1))
MaxInt == (2 ^ (IntWidth - 1)) - 1
Int64 == MinInt .. MaxInt

\* Two's-complement wrap-around of an integer result.
Wrap(n) == ((n - MinInt) % Modulus) + MinInt

(***************************************************************************)
(* Values (package object).  Every value is a record [type, v].            *)
(***************************************************************************)
Integer(n) == [type |-> "INTEGER", v |-> n]
\* Floats are kept in tenths: Float(15) is 1.5, Float(0) is 0.0.
Float(t) == [type |-> "FLOAT", v |-> t]
\* A String is its sequence of runes, each a one-character string.
String(runes) == [type |-> "STRING", v |-> runes]
Array(elems) == [type |-> "ARRAY", v |-> elems]
\* A hash is its sequence of <<key, value>> pairs.
Hash(pairs) == [type |-> "HASH", v |-> pairs]
Error(msg) == [type |-> "ERROR", v |-> [message |-> msg, code |-> 0, hasCode |-> FALSE, builtinCall |-> FALSE]]
ReturnValue(val) == [type |-> "RETURN_VALUE", v |-> val]
Function(params, defaults, body, env) == [type |-> "FUNCTION", v |-> [defaults |-> defaults, body |-> body, env |-> env, parameters |-> params]]
Builtin(name) == [type |-> "BUILTIN", v |-> name]
Module(name, attrs, id) == [type |-> "MODULE", v |-> [name |-> name, attrs |-> attrs, id |-> id]]

\* The pre-defined singletons; every Boolean and Null the evaluator makes is
\* one of these, so comparing by identity is comparing by value.
NULL == [type |-> "NULL", v |-> 0]
TRUE_OBJ == [type |-> "BOOLEAN", v |-> TRUE]
FALSE_OBJ == [type |-> "BOOLEAN", v |-> FALSE]
\* Go's nil interface value.
NIL == [type |-> "nil", v |-> 0]

nativeBoolToBooleanObject(input) == IF input THEN TRUE_OBJ ELSE FALSE_OBJ

isError(obj) == obj # NIL /\ obj.type = "ERROR"

(***************************************************************************)
(* Process exit.                                                           *)
(***************************************************************************)
Running == [code |-> 0, halted |-> FALSE, panic |-> FALSE, hang |-> FALSE]

\* utils.ExitConditionally(c) in a batch run: the process ends with code c.
ExitConditionally(st, c) == [st EXCEPT !.exit = [code |-> c, halted |-> TRUE, panic |-> FALSE, hang |-> FALSE]]

\* A Go runtime panic (index out of range, makeslice with a negative length,
\* integer division by zero, stack overflow): the process ends with status 2.
GoPanic(st) == [st EXCEPT !.exit = [code |-> 2, halted |-> TRUE, panic |-> TRUE, hang |-> FALSE]]

\* A loop that has not ended after MaxLoopIters iterations: the run hangs.
Diverge(st) == [st EXCEPT !.exit = [code |-> 0, halted |-> TRUE, panic |-> FALSE, hang |-> TRUE]]

\* evalProgram returns at a ReturnValue: Execute ends with status 0.
Return(st) == [st EXCEPT !.exit = [code |-> 0, halted |-> TRUE, panic |-> FALSE, hang |-> FALSE]]

Halted(st) == st.exit.halted

(***************************************************************************)
(* Environments (object.Environment).                                      *)
(***************************************************************************)
EmptyStore == [n \in {} |-> NULL]

NewScope(outer, hasPermit, permit, args) == [outer |-> outer, hasPermit |-> hasPermit, permit |-> permit, store |-> EmptyStore, currentArgs |-> args]

\* object.NewEnvironment(): a scope with no parent.
NewEnvironment == NewScope(0, FALSE, {}, <<>>)

\* object.NewEnclosedEnvironment(outer, args)
NewEnclosedEnvironment(outer, args) == NewScope(outer, FALSE, {}, args)

\* object.NewTemporaryScope(outer, permit)
NewTemporaryScope(outer, permit) == NewScope(outer, TRUE, permit, <<>>)

Bind(store, name, val, ro) == [n \in (DOMAIN store) \cup {name} |-> IF n = name THEN [val |-> val, readonly |-> ro] ELSE store[n]]

\* The binding env.Get finds: walk self -> parent chain, first match.
RECURSIVE Lookup(_, _, _)
Lookup(heap, e, name) ==
    IF e = 0 THEN [val |-> NIL, readonly |-> FALSE, ok |-> FALSE, scope |-> 0]
    ELSE IF name \in DOMAIN heap[e].store
         THEN [val |-> heap[e].store[name].val, readonly |-> heap[e].store[name].readonly, ok |-> TRUE, scope |-> e]
         ELSE Lookup(heap, heap[e].outer, name)

Get(st, e, name) == Lookup(st.scopes, e, name)

\* env.Set(name, val): a scope with a permit set hands every other name to
\* its parent; an immutable binding of the scope itself is fatal; otherwise
\* the scope's own store takes the (mutable) binding.
RECURSIVE Set(_, _, _, _)
Set(st, e, name, val) ==
    LET sc == st.scopes[e] IN
    IF sc.hasPermit /\ name \notin sc.permit /\ sc.outer # 0
    THEN Set(st, sc.outer, name, val)
    ELSE IF name \in DOMAIN sc.store /\ sc.store[name].readonly
         THEN ExitConditionally(st, 1)
         ELSE [st EXCEPT !.scopes[e].store = Bind(sc.store, name, val, FALSE)]

\* env.SetLet(name, val): an immutable binding in the nearest scope that
\* permits the name.
RECURSIVE SetLet(_, _, _, _)
SetLet(st, e, name, val) ==
    LET sc == st.scopes[e] IN
    IF sc.hasPermit /\ name \notin sc.permit /\ sc.outer # 0
    THEN SetLet(st, sc.outer, name, val)
    ELSE [st EXCEPT !.scopes[e].store = Bind(sc.store, name, val, TRUE)]

(***************************************************************************)
(* AST nodes (package ast), as far as the evaluator reads them.            *)
(***************************************************************************)
\* IntegerLiteral, FloatLiteral, Boolean, NullLiteral, and a StringLiteral,
\* ArrayLiteral or HashLiteral without sub-expressions: the node's value.
Literal(val) == [kind |-> "Literal", value |-> val]
\* A StringLiteral whose text may hold {{...}} fragments: its runes.
StringLiteral(runes) == [kind |-> "StringLiteral", value |-> runes]
Identifier(name) == [name |-> name, kind |-> "Identifier"]
PrefixExpression(op, right) == [kind |-> "PrefixExpression", right |-> right, operator |-> op]
PostfixExpression(op, name) == [kind |-> "PostfixExpression", operator |-> op, token |-> name]
InfixExpression(op, left, right) == [kind |-> "InfixExpression", right |-> right, operator |-> op, left |-> left]
BlockStatement(stmts) == [kind |-> "BlockStatement", statements |-> stmts]
Program(stmts) == [kind |-> "Program", statements |-> stmts]
NoNode == [kind |-> "nil"]
IfExpression(cond, cons, alt) == [kind |-> "IfExpression", condition |-> cond, consequence |-> cons, alternative |-> alt]
ForLoopExpression(cond, cons) == [kind |-> "ForLoopExpression", condition |-> cond, consequence |-> cons]
ForeachStatement(ident, index, value, body) == [body |-> body, kind |-> "ForeachStatement", value |-> value, ident |-> ident, index |-> index]
ReturnStatement(value) == [kind |-> "ReturnStatement", returnValue |-> value]
LetStatement(name, value) == [name |-> name, kind |-> "LetStatement", value |-> value]
MutableStatement(name, value) == [name |-> name, kind |-> "MutableStatement", value |-> value]
AssignStatement(name, op, value) == [name |-> name, kind |-> "AssignStatement", value |-> value, operator |-> op]
FunctionLiteral(params, defaults, body) == [defaults |-> defaults, body |-> body, parameters |-> params, kind |-> "FunctionLiteral"]
CallExpression(fn, args) == [kind |-> "CallExpression", function |-> fn, arguments |-> args]
ImportExpression(name) == [name |-> name, kind |-> "ImportExpression"]
IndexExpression(left, index) == [kind |-> "IndexExpression", left |-> left, index |-> index]

(***************************************************************************)
(* Operators on values.  A handler that can end in a Go runtime panic      *)
(* yields PANIC; the caller turns it into the end of the process.          *)
(***************************************************************************)
PANIC == [type |-> "panic", v |-> 0]

Abs(n) == IF n < 0 THEN 0 - n ELSE n

\* Go's integer quotient truncates toward zero; MinInt / -1 wraps to MinInt.
GoQuo(a, b) == Wrap((IF (a < 0) = (b < 0) THEN 1 ELSE 0 - 1) * (Abs(a) \div Abs(b)))

\* Mutant of GoRem: the remainder is never negative.
GoRem_NonNegative(a, b) == Abs(a) % Abs(b)

\* Go's remainder has the sign of the dividend: a - b * trunc(a / b).
GoRem(a, b) == a - (b * ((IF (a < 0) = (b < 0) THEN 1 ELSE 0 - 1) * (Abs(a) \div Abs(b))))

\* Mutant of rangeLoop: leftVal is not advanced.
rangeLoop_Constant(array, i, len, leftVal) == IF i < len THEN [k \in 1 .. len |-> Integer(leftVal)] ELSE array

\* The loop of the ".." case: array[i] = leftVal; leftVal++; i++.
RECURSIVE rangeLoop(_, _, _, _)
rangeLoop(array, i, len, leftVal) ==
    IF i < len
    THEN rangeLoop(Append(array, Integer(leftVal)), i + 1, len, Wrap(leftVal + 1))
    ELSE array

evalIntegerInfixExpression(operator, left, right) ==
    LET leftVal == left.v
        rightVal == right.v
    IN CASE operator \in {"+", "+="} -> Integer(Wrap(leftVal + rightVal))
         [] operator = "%" -> IF rightVal = 0 THEN PANIC ELSE Integer(GoRem(leftVal, rightVal))
         [] operator \in {"-", "-="} -> Integer(Wrap(leftVal - rightVal))
         [] operator \in {"*", "*="} -> Integer(Wrap(leftVal * rightVal))
         [] operator \in {"/", "/="} -> IF rightVal = 0 THEN PANIC ELSE Integer(GoQuo(leftVal, rightVal))
         [] operator = "<" -> nativeBoolToBooleanObject(leftVal < rightVal)
         [] operator = "<=" -> nativeBoolToBooleanObject(leftVal <= rightVal)
         [] operator = ">" -> nativeBoolToBooleanObject(leftVal > rightVal)
         [] operator = ">=" -> nativeBoolToBooleanObject(leftVal >= rightVal)
         [] operator = "==" -> nativeBoolToBooleanObject(leftVal = rightVal)
         [] operator = "!=" -> nativeBoolToBooleanObject(leftVal # rightVal)
         [] operator = ".." ->
              \* len := int(rightVal-leftVal) + 1; make([]OBJ, len) panics
              \* when len is negative.
              LET len == Wrap(Wrap(rightVal - leftVal) + 1) IN
              IF len < 0 THEN PANIC ELSE Array(rangeLoop(<<>>, 0, len, leftVal))
         [] OTHER -> Error("unknown operator: INTEGER " \o operator \o " INTEGER")

\* Float op Float, in tenths.
evalFloatInfixExpression(operator, left, right) ==
    LET leftVal == left.v
        rightVal == right.v
    IN CASE operator \in {"+", "+="} -> Float(leftVal + rightVal)
         [] operator \in {"-", "-="} -> Float(leftVal - rightVal)
         [] operator = "<" -> nativeBoolToBooleanObject(leftVal < rightVal)
         [] operator = "<=" -> nativeBoolToBooleanObject(leftVal <= rightVal)
         [] operator = ">" -> nativeBoolToBooleanObject(leftVal > rightVal)
         [] operator = ">=" -> nativeBoolToBooleanObject(leftVal >= rightVal)
         [] operator = "==" -> nativeBoolToBooleanObject(leftVal = rightVal)
         [] operator = "!=" -> nativeBoolToBooleanObject(leftVal # rightVal)
         [] OTHER -> Error("unknown operator: FLOAT " \o operator \o " FLOAT")

\* float64(Integer) in tenths.
evalFloatIntegerInfixExpression(operator, left, right) == evalFloatInfixExpression(operator, left, Float(10 * right.v))

evalIntegerFloatInfixExpression(operator, left, right) == evalFloatInfixExpression(operator, Float(10 * left.v), right)

\* The one-byte runes of the model in byte order; Go compares strings
\* bytewise.
Ascii == <<" ", "!", "\"", "#", "$", "%", "&", "'", "(", ")", "*", "+", ",", "-", ".", "/", "0", "1", "2", "3", "4", "5", "6", "7", "8", "9", ":", ";", "<", "=", ">", "?", "@", "A", "B", "C", "D", "E", "F", "G", "H", "I", "J", "K", "L", "M", "N", "O", "P", "Q", "R", "S", "T", "U", "V", "W", "X", "Y", "Z", "[", "\\", "]", "^", "_", "a", "b", "c", "d", "e", "f", "g", "h", "i", "j", "k", "l", "m", "n", "o", "p", "q", "r", "s", "t", "u", "v", "w", "x", "y", "z", "{", "|", "}", "~">>

Ord(r) == CHOOSE i \in 1..Len(Ascii) : Ascii[i] = r

RECURSIVE Less(_, _, _)
\* l.Value < r.Value from position i on
Less(a, b, i) ==
    IF i > Len(b) THEN FALSE
    ELSE IF i > Len(a) THEN TRUE
    ELSE IF a[i] = b[i] THEN Less(a, b, i + 1)
    ELSE Ord(a[i]) < Ord(b[i])

evalStringInfixExpression(operator, left, right) ==
    CASE operator = "==" -> nativeBoolToBooleanObject(left.v = right.v)
      [] operator = "!=" -> nativeBoolToBooleanObject(left.v # right.v)
      [] operator = ">=" -> nativeBoolToBooleanObject(~Less(left.v, right.v, 1))
      [] operator = ">" -> nativeBoolToBooleanObject(Less(right.v, left.v, 1))
      [] operator = "<=" -> nativeBoolToBooleanObject(~Less(right.v, left.v, 1))
      [] operator = "<" -> nativeBoolToBooleanObject(Less(left.v, right.v, 1))
      [] operator \in {"+", "+="} -> String(left.v \o right.v)
      [] OTHER -> Error("unknown operator: STRING " \o operator \o " STRING")

objectToNativeBoolean(o0) ==
    LET o == IF o0.type = "RETURN_VALUE" THEN o0.v ELSE o0 IN
    CASE o.type = "BOOLEAN" -> o.v
      [] o.type = "STRING" -> Len(o.v) # 0
      [] o.type = "NULL" -> FALSE
      [] o.type = "INTEGER" -> o.v # 0
      [] o.type = "FLOAT" -> o.v # 0
      [] o.type = "ARRAY" -> Len(o.v) # 0
      [] o.type = "HASH" -> Len(o.v) # 0
      [] OTHER -> TRUE

\* Boolean op Boolean: the comparison operators on the inspections "true"
\* and "false"; every other operator is unknown.
evalBooleanInfixExpression(operator, left, right) ==
    CASE operator = "<" -> nativeBoolToBooleanObject(~left.v /\ right.v)
      [] operator = "<=" -> nativeBoolToBooleanObject(~left.v \/ right.v)
      [] operator = ">" -> nativeBoolToBooleanObject(left.v /\ ~right.v)
      [] operator = ">=" -> nativeBoolToBooleanObject(left.v \/ ~right.v)
      [] OTHER -> Error("unknown operator: BOOLEAN " \o operator \o " BOOLEAN")

evalInfixExpression(operator, left, right) ==
    CASE left.type = "INTEGER" /\ right.type = "INTEGER" -> evalIntegerInfixExpression(operator, left, right)
      [] left.type = "FLOAT" /\ right.type = "FLOAT" -> evalFloatInfixExpression(operator, left, right)
      [] left.type = "FLOAT" /\ right.type = "INTEGER" -> evalFloatIntegerInfixExpression(operator, left, right)
      [] left.type = "INTEGER" /\ right.type = "FLOAT" -> evalIntegerFloatInfixExpression(operator, left, right)
      [] left.type = "STRING" /\ right.type = "STRING" -> evalStringInfixExpression(operator, left, right)
      [] OTHER ->
         CASE operator = "&&" -> nativeBoolToBooleanObject(objectToNativeBoolean(left) /\ objectToNativeBoolean(right))
           [] operator = "||" -> nativeBoolToBooleanObject(objectToNativeBoolean(left) \/ objectToNativeBoolean(right))
           [] operator = "==" -> nativeBoolToBooleanObject(left = right)
           [] operator = "!=" -> nativeBoolToBooleanObject(left # right)
           [] OTHER ->
              IF left.type = "BOOLEAN" /\ right.type = "BOOLEAN"
              THEN evalBooleanInfixExpression(operator, left, right)
              ELSE IF left.type # right.type
                   THEN Error("type mismatch: " \o left.type \o " " \o operator \o " " \o right.type)
                   ELSE Error("unknown operator: " \o left.type \o " " \o operator \o " " \o right.type)

\* Mutant of evalBangOperatorExpression: negation of objectToNativeBoolean.
evalBangOperatorExpression_Truthiness(right) == nativeBoolToBooleanObject(~objectToNativeBoolean(right))

evalBangOperatorExpression(right) ==
    CASE right = TRUE_OBJ -> FALSE_OBJ
      [] right = FALSE_OBJ -> TRUE_OBJ
      [] right = NULL -> TRUE_OBJ
      [] OTHER -> FALSE_OBJ

evalMinusPrefixOperatorExpression(right) ==
    CASE right.type = "INTEGER" -> Integer(Wrap(0 - right.v))
      [] right.type = "FLOAT" -> Float(0 - right.v)
      [] OTHER -> Error("unknown operator: -" \o right.type)

\* ^value is -value - 1.
evalNotPrefixOperatorExpression(right) ==
    IF right.type # "INTEGER" THEN Error("expected integer, got " \o right.type)
    ELSE Integer(Wrap(0 - right.v - 1))

evalPrefixExpression(operator, right) ==
    CASE operator = "!" -> evalBangOperatorExpression(right)
      [] operator = "-" -> evalMinusPrefixOperatorExpression(right)
      [] operator = "~" -> evalNotPrefixOperatorExpression(right)
      [] OTHER -> Error("unknown operator: " \o operator \o right.type)

isTruthy(obj) ==
    CASE obj = TRUE_OBJ -> TRUE
      [] obj = FALSE_OBJ -> FALSE
      [] obj = NULL -> FALSE
      [] OTHER -> TRUE

upwrapReturnValue(obj) == IF obj.type = "RETURN_VALUE" THEN obj.v ELSE obj

(***************************************************************************)
(* The evaluator.  The state st threaded through it holds the heap of      *)
(* scopes, the import cache, the process status and, in res, the value     *)
(* of the node evaluated last.  Once the process has ended nothing more    *)
(* is evaluated.                                                           *)
(***************************************************************************)
WithRes(st, r) == IF r = PANIC THEN GoPanic(st) ELSE [st EXCEPT !.res = r]

\* A fresh scope on the heap; its id is the new length of the heap.
Alloc(st, scope) == [st EXCEPT !.scopes = Append(st.scopes, scope)]

\* The names RegisterBuiltin has registered (evaluator.builtins).
builtins == {"print", "error", "panic"}

evalIdentifier(st, e, name) ==
    LET g == Get(st, e, name) IN
    IF g.ok THEN WithRes(st, g.val)
    ELSE IF name \in builtins THEN WithRes(st, Builtin(name))
    ELSE ExitConditionally(st, 1)

\* Mutant of evalPostfixExpression: the result is the value after the update.
evalPostfixExpression_NewValue(st, e, operator, name) ==
    IF operator \in {"++", "--"}
    THEN LET g == Get(st, e, name) IN
         IF ~g.ok THEN WithRes(st, Error(name \o " is unknown"))
         ELSE IF g.val.type = "INTEGER"
              THEN LET v == g.val.v
                       next == IF operator = "++" THEN Wrap(v + 1) ELSE Wrap(v - 1)
                   IN WithRes(Set(st, e, name, Integer(next)), Integer(next))
              ELSE WithRes(st, Error(name \o " is not an int"))
    ELSE WithRes(st, Error("unknown operator: " \o operator))

evalPostfixExpression(st, e, operator, name) ==
    IF operator \in {"++", "--"}
    THEN LET g == Get(st, e, name) IN
         IF ~g.ok THEN WithRes(st, Error(name \o " is unknown"))
         ELSE IF g.val.type = "INTEGER"
              THEN LET v == g.val.v
                       next == IF operator = "++" THEN Wrap(v + 1) ELSE Wrap(v - 1)
                   IN WithRes(Set(st, e, name, Integer(next)), g.val)
              ELSE WithRes(st, Error(name \o " is not an int"))
    ELSE WithRes(st, Error("unknown operator: " \o operator))

\* The end of the cases "+=", "-=", "*=", "/=": an Error is returned, any
\* other result is stored.
setResult(st, e, name, res) ==
    IF res = PANIC THEN GoPanic(st)
    ELSE IF isError(res) THEN WithRes(st, res)
    ELSE WithRes(Set(st, e, name, res), res)

\* The cases "+=", "-=", "*=", "/=" of evalAssignStatement.
evalAugmentedAssign(st, e, name, operator, evaluated) ==
    LET current == Get(st, e, name) IN
    IF ~current.ok THEN WithRes(st, Error(name \o " is unknown"))
    ELSE setResult(st, e, name, evalInfixExpression(operator, current.val, evaluated))

\* Mutant of evalPlainAssign: the value is computed and never stored.
evalPlainAssign_Discard(st, e, name, evaluated) ==
    IF ~Get(st, e, name).ok
    THEN ExitConditionally(st, 1)
    ELSE WithRes(st, evaluated)

\* Mutant of evalPlainAssign: the name is not looked up first.
evalPlainAssign_Create(st, e, name, evaluated) == WithRes(Set(st, e, name, evaluated), evaluated)

\* The case "=" of evalAssignStatement.
evalPlainAssign(st, e, name, evaluated) ==
    IF ~Get(st, e, name).ok
    THEN ExitConditionally(st, 1)
    ELSE WithRes(Set(st, e, name, evaluated), evaluated)

RECURSIVE Eval(_, _, _)
RECURSIVE evalStatements(_, _, _, _, _)
RECURSIVE evalForLoopExpression(_, _, _, _)
RECURSIVE foreachLoop(_, _, _, _, _)
RECURSIVE evalExpression(_, _, _, _, _)
RECURSIVE setDefaults(_, _, _, _)

\* evalBlockStatement (unwrap = FALSE) and evalProgram (unwrap = TRUE): the
\* statements in order from the i-th on; a ReturnValue ends the sequence,
\* and evalProgram unwraps it.
evalStatements(st, e, stmts, i, unwrap) ==
    IF i > Len(stmts) THEN st
    ELSE LET s1 == Eval(stmts[i], e, st) IN
         IF Halted(s1) THEN s1
         ELSE IF s1.res.type = "RETURN_VALUE"
              THEN (IF unwrap THEN WithRes(s1, s1.res.v) ELSE s1)
              ELSE evalStatements(s1, e, stmts, i + 1, unwrap)

evalBlockStatement(st, e, block) == evalStatements(WithRes(st, NIL), e, block.statements, 1, FALSE)

evalProgram(st, e, program) == evalStatements(WithRes(st, NIL), e, program.statements, 1, TRUE)

evalIfExpression(st, e, ie) ==
    LET s1 == Eval(ie.condition, e, st) IN
    IF Halted(s1) THEN s1
    ELSE IF isError(s1.res) THEN s1
    ELSE IF isTruthy(s1.res) THEN Eval(ie.consequence, e, s1)
    ELSE IF ie.alternative # NoNode THEN Eval(ie.alternative, e, s1)
    ELSE WithRes(s1, NULL)

\* The n-th round of the loop of evalForLoopExpression.
evalForLoopExpression(st, e, fle, n) ==
    IF n > MaxLoopIters THEN Diverge(st)
    ELSE LET s1 == Eval(fle.condition, e, st) IN
         IF Halted(s1) THEN s1
         ELSE IF isError(s1.res) THEN s1
         ELSE IF isTruthy(s1.res)
              THEN LET s2 == Eval(fle.consequence, e, s1) IN
                   IF Halted(s2) THEN s2
                   \* rt.Type() on a nil result is a nil dereference
                   ELSE IF s2.res = NIL THEN GoPanic(s2)
                   ELSE IF ~isError(s2.res) /\ s2.res.type \in {"RETURN_VALUE", "ERROR"} THEN s2
                   ELSE evalForLoopExpression(s2, e, fle, n + 1)
              ELSE WithRes(s1, TRUE_OBJ)

evalAssignStatement(st, e, a) ==
    LET s1 == Eval(a.value, e, st) IN
    IF Halted(s1) THEN s1
    ELSE IF isError(s1.res) THEN s1
    ELSE IF a.operator \in {"+=", "-=", "*=", "/="}
         THEN evalAugmentedAssign(s1, e, a.name, a.operator, s1.res)
         ELSE IF a.operator = "=" THEN evalPlainAssign(s1, e, a.name, s1.res)
         ELSE s1

\* The Go string of a rune sequence.
RECURSIVE GoString(_)
GoString(runes) == IF Len(runes) = 0 THEN "" ELSE runes[1] \o GoString(Tail(runes))

\* Runes whose UTF-8 encoding takes two bytes; every other rune of the model
\* takes one.
RuneWidth(r) == IF r = "é" THEN 2 ELSE 1

\* len(str): the length in bytes.
RECURSIVE ByteLen(_)
ByteLen(runes) == IF Len(runes) = 0 THEN 0 ELSE RuneWidth(runes[1]) + ByteLen(Tail(runes))

(***************************************************************************)
(* Iteration (object.Iterable): the <<element, index>> pairs that Reset    *)
(* followed by repeated Next hands out.                                    *)
(***************************************************************************)
Iterable(val) == val.type \in {"ARRAY", "HASH", "STRING"}

Iterate(val) ==
    CASE val.type = "ARRAY" -> [i \in 1..Len(val.v) |-> <<val.v[i], Integer(i - 1)>>]
      [] val.type = "STRING" -> [i \in 1..Len(val.v) |-> <<String(<<val.v[i]>>), Integer(i - 1)>>]
      [] val.type = "HASH" -> [i \in 1..Len(val.v) |-> <<val.v[i][2], val.v[i][1]>>]

\* The loop of evalForeachExpression from the i-th item on.
foreachLoop(st, child, fle, items, i) ==
    IF i > Len(items) THEN WithRes(st, NULL)
    ELSE LET s1 == Set(st, child, fle.ident, items[i][1])
             s2 == IF fle.index # "" THEN Set(s1, child, fle.index, items[i][2]) ELSE s1
             s3 == Eval(fle.body, child, s2)
         IN IF Halted(s3) THEN s3
            \* rt.Type() on a nil result is a nil dereference
            ELSE IF s3.res = NIL THEN GoPanic(s3)
            ELSE IF ~isError(s3.res) /\ s3.res.type \in {"RETURN_VALUE", "ERROR"} THEN s3
            ELSE foreachLoop(s3, child, fle, items, i + 1)

\* Mutant of foreachScope: an ordinary enclosed scope, without a permit set.
foreachScope_Enclosed(e, fle) == NewEnclosedEnvironment(e, <<>>)

\* The scope evalForeachExpression runs the body in.
foreachScope(e, fle) == NewTemporaryScope(e, {fle.ident} \cup (IF fle.index # "" THEN {fle.index} ELSE {}))

evalForeachExpression(st, e, fle) ==
    LET s1 == Eval(fle.value, e, st) IN
    IF Halted(s1) THEN s1
    ELSE IF s1.res = NIL THEN GoPanic(s1)
    ELSE IF ~Iterable(s1.res) THEN WithRes(s1, Error(s1.res.type \o " object doesn't implement the Iterable interface"))
    ELSE LET s2 == Alloc(s1, foreachScope(e, fle))
         IN foreachLoop(s2, Len(s2.scopes), fle, Iterate(s1.res), 1)

(***************************************************************************)
(* Calls.                                                                  *)
(***************************************************************************)
Args(list) == [type |-> "args", v |-> list]

\* evalExpression: the expressions from the i-th on, left to right; the
\* first Error becomes the whole list.
evalExpression(st, e, exps, i, result) ==
    IF i > Len(exps) THEN WithRes(st, Args(result))
    ELSE LET s1 == Eval(exps[i], e, st) IN
         IF Halted(s1) THEN s1
         ELSE IF isError(s1.res) THEN WithRes(s1, Args(<<s1.res>>))
         ELSE evalExpression(s1, e, exps, i + 1, Append(result, s1.res))

\* The first loop of extendFunctionEnv: every default expression, from the
\* i-th on, is evaluated in the new scope and bound.
setDefaults(st, env, defaults, i) ==
    IF i > Len(defaults) THEN st
    ELSE LET s1 == Eval(defaults[i][2], env, st) IN
         IF Halted(s1) THEN s1
         ELSE setDefaults(Set(s1, env, defaults[i][1], s1.res), env, defaults, i + 1)

\* The second loop of extendFunctionEnv: the positional parameters.
RECURSIVE setParams(_, _, _, _, _)
setParams(st, env, params, args, i) ==
    IF i > Len(params) THEN st
    ELSE IF i <= Len(args) THEN setParams(Set(st, env, params[i], args[i]), env, params, args, i + 1)
    ELSE setParams(st, env, params, args, i + 1)

extendFunctionEnv(st, fn, args) ==
    LET s1 == Alloc(st, NewEnclosedEnvironment(fn.v.env, args))
        env == Len(s1.scopes)
        s2 == setDefaults(s1, env, fn.v.defaults, 1)
    IN IF Halted(s2) THEN s2 ELSE setParams(s2, env, fn.v.parameters, args, 1)

\* The value paired with key in a hash, NIL when there is none.
RECURSIVE HashGet(_, _)
HashGet(pairs, key) ==
    IF Len(pairs) = 0 THEN NIL
    ELSE IF pairs[1][1] = key THEN pairs[1][2]
    ELSE HashGet(Tail(pairs), key)

(***************************************************************************)
(* Text: inspection of values, strconv.Unquote and print.                  *)
(***************************************************************************)
\* The decimal digits of a natural number, as runes.
RECURSIVE Digits(_)
Digits(n) ==
    LET d == <<"0", "1", "2", "3", "4", "5", "6", "7", "8", "9">>[(n % 10) + 1] IN
    IF n < 10 THEN <<d>> ELSE Append(Digits(n \div 10), d)

\* o.Inspect(): a String is its raw value; Integers, Booleans and Null are
\* written as in the source text.  Values of other types are not inspected
\* by the programs of this model.
Inspect(o) ==
    CASE o.type = "STRING" -> o.v
      [] o.type = "INTEGER" -> IF o.v < 0 THEN <<"-">> \o Digits(0 - o.v) ELSE Digits(o.v)
      [] o.type = "BOOLEAN" -> IF o.v THEN <<"t", "r", "u", "e">> ELSE <<"f", "a", "l", "s", "e">>
      [] o.type = "NULL" -> <<"n", "u", "l", "l">>
      [] OTHER -> <<"<", o.type, ">">>

\* strings.Contains(s, "\\")
Contains(runes, r) == \E i \in 1..Len(runes) : runes[i] = r

\* strconv.Unquote of the text between double quotes, from the i-th rune
\* on: a double quote or a newline that is not escaped, a backslash at the
\* end and an unknown escape are syntax errors, for which Unquote returns "".
RECURSIVE unquoteFrom(_, _, _)
unquoteFrom(runes, i, acc) ==
    IF i > Len(runes) THEN [v |-> acc, ok |-> TRUE]
    ELSE IF runes[i] \in {"\"", "\n"} THEN [v |-> <<>>, ok |-> FALSE]
    ELSE IF runes[i] # "\\" THEN unquoteFrom(runes, i + 1, Append(acc, runes[i]))
    ELSE IF i = Len(runes) THEN [v |-> <<>>, ok |-> FALSE]
    ELSE CASE runes[i + 1] = "n" -> unquoteFrom(runes, i + 2, Append(acc, "\n"))
           [] runes[i + 1] = "t" -> unquoteFrom(runes, i + 2, Append(acc, "\t"))
           [] runes[i + 1] = "\\" -> unquoteFrom(runes, i + 2, Append(acc, "\\"))
           [] runes[i + 1] = "\"" -> unquoteFrom(runes, i + 2, Append(acc, "\""))
           [] OTHER -> [v |-> <<>>, ok |-> FALSE]

Unquote(runes) == unquoteFrom(runes, 1, <<>>)

\* fmt.Print(text) on standard output.
Write(st, text) == [st EXCEPT !.out = st.out \o text]

\* The branch of printFn for a String that holds a backslash: the unquoted
\* text (after the original text when Unquote fails), a space and a newline
\* are written, and printFn returns.
printUnquoted(st, s, u) ==
    WithRes(Write(IF u.ok THEN st ELSE Write(st, s \o <<" ">>), u.v \o <<" ", "\n">>), NULL)

\* The loop of printFn over the arguments from the i-th on.
RECURSIVE printFn(_, _, _)
printFn(st, args, i) ==
    IF i > Len(args) THEN WithRes(Write(st, <<"\n">>), NULL)
    ELSE LET s == Inspect(args[i]) IN
         IF args[i].type = "STRING" /\ Contains(s, "\\")
         THEN printUnquoted(st, s, Unquote(s))
         ELSE printFn(Write(st, s \o <<" ">>), args, i + 1)

\* Mutant of panicFn: the Error's code is ignored.
panicFn_StatusOne(st, args) ==
    IF Len(args) = 0 THEN GoPanic(st)
    ELSE IF args[1].type = "ERROR"
         THEN ExitConditionally(st, 1)
         ELSE WithRes(st, Error("panic expected an error!"))

panicFn(st, args) ==
    IF Len(args) = 0 THEN GoPanic(st)
    ELSE IF args[1].type = "ERROR"
         THEN ExitConditionally(st, IF args[1].v.hasCode THEN args[1].v.code ELSE 1)
         ELSE WithRes(st, Error("panic expected an error!"))

errorFn(args) ==
    IF Len(args) # 1 THEN Error("wrong number of arguments")
    ELSE IF args[1].type = "STRING"
         THEN [type |-> "ERROR", v |-> [message |-> GoString(args[1].v), code |-> 0, hasCode |-> FALSE, builtinCall |-> TRUE]]
    ELSE IF args[1].type = "HASH"
         THEN LET msg == HashGet(args[1].v, String(<<"m", "e", "s", "s", "a", "g", "e">>))
                  code == HashGet(args[1].v, String(<<"c", "o", "d", "e">>))
              IN IF msg # NIL /\ msg.type # "STRING" THEN Error("error.message should be string!")
                 ELSE IF code # NIL /\ code.type # "INTEGER" THEN Error("error.code should be integer!")
                 ELSE [type |-> "ERROR", v |-> [message |-> IF msg = NIL THEN "" ELSE GoString(msg.v), code |-> IF code = NIL THEN 0 ELSE code.v, hasCode |-> code # NIL, builtinCall |-> TRUE]]
    ELSE Error("error() expected a string or hash!")

\* fn.Fn(env, args...) for the registered built-ins.
callBuiltin(st, name, args) ==
    CASE name = "panic" -> panicFn(st, args)
      [] name = "error" -> WithRes(st, errorFn(args))
      [] name = "print" -> printFn(st, args, 1)
      [] OTHER -> WithRes(st, NULL)

\* Mutant of ApplyFunction: the body runs in a child of the caller's
\* environment.
ApplyFunction_CallerEnv(st, e, fn, args) ==
    IF fn.type = "BUILTIN" THEN callBuiltin(st, fn.v, args)
    ELSE IF fn.type = "FUNCTION"
    THEN LET s1 == extendFunctionEnv(st, [fn EXCEPT !.v.env = e], args)
             extendEnv == Len(st.scopes) + 1
         IN IF Halted(s1) THEN s1
            ELSE LET s2 == Eval(fn.v.body, extendEnv, s1) IN
                 IF Halted(s2) THEN s2 ELSE WithRes(s2, upwrapReturnValue(s2.res))
    ELSE WithRes(st, Error("not a function: " \o fn.type))

ApplyFunction(st, e, fn, args) ==
    IF fn.type = "BUILTIN" THEN callBuiltin(st, fn.v, args)
    ELSE IF fn.type = "FUNCTION"
    THEN LET s1 == extendFunctionEnv(st, fn, args)
             extendEnv == Len(st.scopes) + 1
         IN IF Halted(s1) THEN s1
            ELSE LET s2 == Eval(fn.v.body, extendEnv, s1) IN
                 IF Halted(s2) THEN s2 ELSE WithRes(s2, upwrapReturnValue(s2.res))
    ELSE WithRes(st, Error("not a function: " \o fn.type))

\* Mutant of exitOnError: the raised-from-builtin flag is not looked at.
exitOnError_AnyError(s3) ==
    IF Halted(s3) THEN s3
    ELSE IF s3.res.type = "ERROR"
         THEN ExitConditionally(s3, IF s3.res.v.hasCode THEN s3.res.v.code ELSE 1)
         ELSE s3

\* The switch on the result of the call: an Error that no built-in raised
\* ends the program with the Error's code, 1 when it has none.
exitOnError(s3) ==
    IF Halted(s3) THEN s3
    ELSE IF s3.res.type = "ERROR" /\ ~s3.res.v.builtinCall
         THEN ExitConditionally(s3, IF s3.res.v.hasCode THEN s3.res.v.code ELSE 1)
         ELSE s3

evalCallExpression(st, e, node) ==
    LET s1 == Eval(node.function, e, st) IN
    IF Halted(s1) THEN s1
    ELSE IF isError(s1.res) THEN s1
    ELSE LET s2 == evalExpression(s1, e, node.arguments, 1, <<>>) IN
         IF Halted(s2) THEN s2
         ELSE exitOnError(ApplyFunction(s2, e, s1.res, s2.res.v))

(***************************************************************************)
(* Index expressions and method resolution.                                *)
(***************************************************************************)
\* o.GetMethod(name): the native methods of the value's type.
NativeMethods(type) ==
    CASE type = "ARRAY" -> {"len"}
      [] type = "STRING" -> {"len"}
      [] type = "HASH" -> {"keys"}
      [] OTHER -> {}

GetMethod(o, name) == IF name \in NativeMethods(o.type) THEN Builtin(o.type \o "." \o name) ELSE NIL

\* strings.ToLower(string(o.Type())) for the types of object.SystemTypesMap.
LowerType(type) ==
    CASE type = "ARRAY" -> "array"
      [] type = "STRING" -> "string"
      [] type = "HASH" -> "hash"
      [] type = "INTEGER" -> "integer"
      [] type = "FLOAT" -> "float"
      [] type = "BOOLEAN" -> "boolean"
      [] type = "NULL" -> "null"
      [] type = "FUNCTION" -> "function"
      [] type = "ERROR" -> "error"
      [] OTHER -> type

\* Mutant of attempts: "object" is tried first.
attempts_ObjectFirst(o) == <<"object", LowerType(o.type)>>

\* The prefixes objectGetMethod tries, in order.
attempts(o) == <<LowerType(o.type), "object">>

\* The loop of objectGetMethod over the prefixes from the i-th on.  The
\* answer is the state with res the method, or res = NIL for "not found".
RECURSIVE methodLoop(_, _, _, _, _, _)

\* Mutant of methodLoop: self is bound in the environment of the Function
\* that was found, and that Function is the answer.
methodLoop_SharedSelf(st, e, o, member, prefixes, i) ==
    IF i > Len(prefixes) THEN WithRes(st, NIL)
    ELSE LET name == prefixes[i] \o "." \o member
             g == Get(st, e, name)
         IN IF g.ok
            THEN IF g.val.type = "FUNCTION"
                 THEN WithRes(Set(st, g.val.v.env, "self", o), g.val)
                 ELSE WithRes(st, g.val)
            ELSE methodLoop(st, e, o, member, prefixes, i + 1)

methodLoop(st, e, o, member, prefixes, i) ==
    IF i > Len(prefixes) THEN WithRes(st, NIL)
    ELSE LET name == prefixes[i] \o "." \o member
             g == Get(st, e, name)
         IN IF g.ok
            THEN IF g.val.type = "FUNCTION"
                 THEN LET s1 == Alloc(st, NewEnclosedEnvironment(g.val.v.env, <<>>))
                          env == Len(s1.scopes)
                          copyFn == [g.val EXCEPT !.v.env = env]
                      IN WithRes(Set(s1, env, "self", o), copyFn)
                 ELSE WithRes(st, g.val)
            ELSE methodLoop(st, e, o, member, prefixes, i + 1)

objectGetMethod(st, e, o, key) ==
    IF key.type = "STRING"
    THEN LET fn == GetMethod(o, GoString(key.v)) IN
         IF fn # NIL THEN WithRes(st, fn)
         ELSE methodLoop(st, e, o, GoString(key.v), attempts(o), 1)
    ELSE WithRes(st, NIL)

\* A method when objectGetMethod finds one, otherwise the fallback value.
orElse(s1, fallback) == IF s1.res # NIL THEN s1 ELSE WithRes(s1, fallback)

\* `if fn, ok := objectGetMethod(...); ok { return fn }; return fallback`
methodOr(st, e, o, key, fallback) == orElse(objectGetMethod(st, e, o, key), fallback)

evalArrayIndexExpression(st, e, array, index) ==
    IF index.type = "INTEGER"
    THEN IF index.v < 0 \/ index.v > Len(array.v) - 1 THEN WithRes(st, NULL)
         ELSE WithRes(st, array.v[index.v + 1])
    ELSE methodOr(st, e, array, index, NULL)

Hashable(val) == val.type \in {"STRING", "INTEGER", "BOOLEAN", "NULL"}

evalHashIndexExpression(st, e, hash, index) ==
    IF ~Hashable(index) THEN WithRes(st, Error("unusable as hash key: " \o index.type))
    ELSE LET value == HashGet(hash.v, index) IN
         IF value = NIL THEN methodOr(st, e, hash, index, NULL)
         ELSE WithRes(st, value)

evalStringIndexExpression(st, e, input, index) ==
    IF index.type = "INTEGER"
    THEN LET idx == index.v
             max == ByteLen(input.v)
         IN IF idx < 0 \/ idx > max THEN WithRes(st, NULL)
            \* chars[idx] on the rune slice: out of range is a runtime panic
            ELSE IF idx >= Len(input.v) THEN GoPanic(st)
            ELSE WithRes(st, String(<<input.v[idx + 1]>>))
    ELSE methodOr(st, e, input, index, NULL)

evalIndexExpression(st, e, left, index) ==
    CASE left.type = "ARRAY" -> evalArrayIndexExpression(st, e, left, index)
      [] left.type = "HASH" -> evalHashIndexExpression(st, e, left, index)
      [] left.type = "STRING" -> evalStringIndexExpression(st, e, left, index)
      [] left.type = "MODULE" -> evalHashIndexExpression(st, e, left.v.attrs, index)
      [] OTHER -> methodOr(st, e, left, index, Error("index operator not support:" \o left.type))

(***************************************************************************)
(* Modules.  The files on the search path: whether FindModule finds the    *)
(* file, whether it can be read and parsed, and the program it holds.      *)
(***************************************************************************)
ImportOf(path) == ImportExpression(Literal(String(<<path>>)))

Files ==
    [n |-> [program |-> <<LetStatement("m", ImportOf("m")), LetStatement("w", Literal(Integer(2)))>>, status |-> "ok"],
     b |-> [program |-> <<>>, status |-> "parse_error"],
     s |-> [program |-> <<LetStatement("s", ImportOf("s"))>>, status |-> "ok"],
     u |-> [program |-> <<>>, status |-> "unreadable"],
     m |-> [program |-> <<LetStatement("v", Literal(Integer(1)))>>, status |-> "ok"],
     p |-> [program |-> <<LetStatement("q", ImportOf("q"))>>, status |-> "ok"],
     q |-> [program |-> <<LetStatement("p", ImportOf("p"))>>, status |-> "ok"]]

\* FindModule(name): "" when no search path entry holds <name>.keai.
FindModule(name) == IF name \in DOMAIN Files THEN name \o ".keai" ELSE ""

\* env.ExportedHash(): the bindings of the scope, as a Hash.
RECURSIVE ExportedPairs(_, _)
ExportedPairs(store, names) ==
    IF names = {} THEN <<>>
    ELSE LET n == CHOOSE x \in names : TRUE IN
         <<<<String(<<n>>), store[n].val>>>> \o ExportedPairs(store, names \ {n})

ExportedHash(scope) == Hash(ExportedPairs(scope.store, DOMAIN scope.store))

\* EvalModule(name).  res is the exported Hash or an Error.  A chain of
\* nested EvalModule calls longer than MaxImportDepth exhausts the stack.
EvalModule(st, name) ==
    IF FindModule(name) = "" THEN WithRes(st, Error("ImportError: no module named '" \o name \o "'"))
    ELSE IF Files[name].status = "unreadable" THEN WithRes(st, Error("IOError: error reading module '" \o name \o "'"))
    ELSE IF Files[name].status = "parse_error" THEN WithRes(st, Error("ParseError"))
    ELSE IF st.depth >= MaxImportDepth THEN GoPanic(st)
    ELSE LET s1 == Alloc([st EXCEPT !.depth = st.depth + 1, !.evalCount[name] = st.evalCount[name] + 1], NewEnvironment)
             env == Len(s1.scopes)
             s2 == Eval(Program(Files[name].program), env, s1)
         IN IF Halted(s2) THEN s2
            ELSE WithRes([s2 EXCEPT !.depth = st.depth], ExportedHash(s2.scopes[env]))

\* Mutant of cacheModule: whatever EvalModule returns becomes a Module.
cacheModule_AnyResult(s2, key, name) ==
    IF Halted(s2) THEN s2
    ELSE LET m == Module(name, s2.res, s2.serial + 1) IN
         WithRes([s2 EXCEPT !.serial = s2.serial + 1,
                            !.importCache = [k \in (DOMAIN s2.importCache) \cup {key} |-> IF k = key THEN m ELSE s2.importCache[k]]], m)

\* The end of evalImportExpression: an Error is returned as it is; the
\* exports become a new Module, which is stored in importCache.
cacheModule(s2, key, name) ==
    IF Halted(s2) THEN s2
    ELSE IF isError(s2.res) THEN s2
    ELSE LET m == Module(name, s2.res, s2.serial + 1) IN
         WithRes([s2 EXCEPT !.serial = s2.serial + 1,
                            !.importCache = [k \in (DOMAIN s2.importCache) \cup {key} |-> IF k = key THEN m ELSE s2.importCache[k]]], m)

evalImportExpression(st, e, ie) ==
    LET key == GoString(ie.name.value.v) IN
    IF key \in DOMAIN st.importCache THEN WithRes(st, st.importCache[key])
    ELSE LET s1 == Eval(ie.name, e, st) IN
         IF Halted(s1) THEN s1
         ELSE IF isError(s1.res) THEN s1
         ELSE IF s1.res.type = "STRING"
              THEN cacheModule(EvalModule(s1, GoString(s1.res.v)), key, GoString(s1.res.v))
              ELSE WithRes(s1, Error("ImportError: invalid import path"))

(***************************************************************************)
(* String interpolation (Interpolate): the matches of an optional         *)
(* backslash, "{{", the shortest text and "}}", from left to right.        *)
(***************************************************************************)
\* "{{" at position i.
opens(runes, i) == i + 1 <= Len(runes) /\ runes[i] = "{" /\ runes[i + 1] = "{"

\* The first position from i on at which "}}" stands, 0 when there is none.
RECURSIVE closing(_, _)
closing(runes, i) ==
    IF i + 1 > Len(runes) THEN 0
    ELSE IF runes[i] = "}" /\ runes[i + 1] = "}" THEN i
    ELSE closing(runes, i + 1)

\* parser.New(lexer.New(text)).ParseProgram() for the fragments of this
\* model: nothing, a name, an Integer, and the sum of two Integers.
ParseProgram(text) ==
    LET IsDigit(r) == r \in {"1", "2"}
        DigitValue(r) == IF r = "1" THEN 1 ELSE 2
    IN IF Len(text) = 0 THEN Program(<<>>)
       ELSE IF Len(text) = 1 /\ IsDigit(text[1]) THEN Program(<<Literal(Integer(DigitValue(text[1])))>>)
       ELSE IF Len(text) = 3 /\ IsDigit(text[1]) /\ text[2] = "+" /\ IsDigit(text[3])
            THEN Program(<<InfixExpression("+", Literal(Integer(DigitValue(text[1]))), Literal(Integer(DigitValue(text[3]))))>>)
       ELSE Program(<<Identifier(GoString(text))>>)

\* `if evaluated != nil { return evaluated.Inspect() }; return ""`
inspected(s1) == IF Halted(s1) THEN s1 ELSE WithRes(s1, String(IF s1.res = NIL THEN <<>> ELSE Inspect(s1.res)))

\* The replacement of one unescaped match {{varName}}: the inspection of the
\* binding of that name, otherwise of what the text evaluates to as a
\* program in the current environment.
expand(st, e, varName) ==
    LET g == Get(st, e, GoString(varName)) IN
    IF g.ok THEN WithRes(st, String(Inspect(g.val)))
    ELSE inspected(Eval(ParseProgram(varName), e, st))

RECURSIVE interpolateFrom(_, _, _, _, _)

\* The text goes on behind a match with the replacement appended.
replaceThen(s1, e, runes, i, acc) == IF Halted(s1) THEN s1 ELSE interpolateFrom(s1, e, runes, i, acc \o s1.res.v)

\* ReplaceAllStringFunc from the i-th rune on; acc is the text so far.
interpolateFrom(st, e, runes, i, acc) ==
    IF i > Len(runes) THEN WithRes(st, String(acc))
    ELSE LET escaped == runes[i] = "\\" /\ opens(runes, i + 1)
             start == IF escaped THEN i + 1 ELSE i
             close == IF opens(runes, start) THEN closing(runes, start + 2) ELSE 0
         IN IF close = 0 THEN interpolateFrom(st, e, runes, i + 1, Append(acc, runes[i]))
            ELSE IF escaped THEN interpolateFrom(st, e, runes, close + 2, acc \o SubSeq(runes, start, close + 1))
            ELSE replaceThen(expand(st, e, SubSeq(runes, start + 2, close - 1)), e, runes, close + 2, acc)

Interpolate(st, e, str) == interpolateFrom(st, e, str, 1, <<>>)

(***************************************************************************)
(* evalContext: the dispatch on the node.                                  *)
(***************************************************************************)
evalPrefix(st, e, node) ==
    LET s1 == Eval(node.right, e, st) IN
    IF Halted(s1) THEN s1
    ELSE IF isError(s1.res) THEN s1
    ELSE WithRes(s1, evalPrefixExpression(node.operator, s1.res))

\* An Error from evalInfixExpression ends the program with status 1.
infixResult(s2, res) ==
    IF res # PANIC /\ isError(res) THEN ExitConditionally(WithRes(s2, res), 1)
    ELSE WithRes(s2, res)

evalInfix(st, e, node) ==
    LET s1 == Eval(node.left, e, st) IN
    IF Halted(s1) THEN s1
    ELSE IF isError(s1.res) THEN s1
    ELSE LET s2 == Eval(node.right, e, s1) IN
         IF Halted(s2) THEN s2
         ELSE IF isError(s2.res) THEN s2
         ELSE infixResult(s2, evalInfixExpression(node.operator, s1.res, s2.res))

evalIndex(st, e, node) ==
    LET s1 == Eval(node.left, e, st) IN
    IF Halted(s1) THEN s1
    ELSE IF isError(s1.res) THEN s1
    ELSE LET s2 == Eval(node.index, e, s1) IN
         IF Halted(s2) THEN s2
         ELSE IF isError(s2.res) THEN s2
         ELSE evalIndexExpression(s2, e, s1.res, s2.res)

evalLet(st, e, node) ==
    LET s1 == Eval(node.value, e, st) IN
    IF Halted(s1) THEN s1 ELSE WithRes(SetLet(s1, e, node.name, s1.res), s1.res)

evalMutable(st, e, node) ==
    LET s1 == Eval(node.value, e, st) IN
    IF Halted(s1) THEN s1 ELSE WithRes(Set(s1, e, node.name, s1.res), s1.res)

evalReturn(st, e, node) ==
    LET s1 == Eval(node.returnValue, e, st) IN
    IF Halted(s1) THEN s1 ELSE WithRes(s1, ReturnValue(s1.res))

Eval(node, e, st) ==
    IF Halted(st) THEN st
    ELSE CASE node.kind = "Program" -> evalProgram(st, e, node)
           [] node.kind = "Literal" -> WithRes(st, node.value)
           [] node.kind = "PrefixExpression" -> evalPrefix(st, e, node)
           [] node.kind = "PostfixExpression" -> evalPostfixExpression(st, e, node.operator, node.token)
           [] node.kind = "InfixExpression" -> evalInfix(st, e, node)
           [] node.kind = "BlockStatement" -> evalBlockStatement(st, e, node)
           [] node.kind = "IfExpression" -> evalIfExpression(st, e, node)
           [] node.kind = "ImportExpression" -> evalImportExpression(st, e, node)
           [] node.kind = "ForLoopExpression" -> evalForLoopExpression(st, e, node, 1)
           [] node.kind = "ForeachStatement" -> evalForeachExpression(st, e, node)
           [] node.kind = "ReturnStatement" -> evalReturn(st, e, node)
           [] node.kind = "MutableStatement" -> evalMutable(st, e, node)
           [] node.kind = "LetStatement" -> evalLet(st, e, node)
           [] node.kind = "Identifier" -> evalIdentifier(st, e, node.name)
           [] node.kind = "StringLiteral" -> Interpolate(st, e, node.value)
           [] node.kind = "FunctionLiteral" -> WithRes(st, Function(node.parameters, node.defaults, node.body, e))
           [] node.kind = "CallExpression" -> evalCallExpression(st, e, node)
           [] node.kind = "IndexExpression" -> evalIndex(st, e, node)
           [] node.kind = "AssignStatement" -> evalAssignStatement(st, e, node)
           [] OTHER -> WithRes(st, NIL)

(***************************************************************************)
(* The running program.  Execute evaluates the statements of the user      *)
(* program one after the other in the global environment, scopes[1].       *)
(***************************************************************************)
Global == 1

\* A context is the value of its Err(): "" while it is not done, as
\* context.Background() always is, and the reason once it is.
Background == ""
Canceled == "context canceled"

\* evalContext(ctx, node, env): when ctx is done the result is an Error with
\* the reason as its message; otherwise the switch on the node, which hands
\* every child node to Eval, that is to evalContext with
\* context.Background().
evalContext(c, node, e, st) ==
    IF c # Background THEN WithRes(st, Error(c))
    ELSE Eval(node, e, st)

\* out is what the statement has written to standard output so far.
St == [scopes |-> scopes, importCache |-> importCache, evalCount |-> evalCount, serial |-> serial, exit |-> exit, res |-> NIL, out |-> <<>>, depth |-> 0]

\* What stays of the heap between two top-level statements: the global
\* scope.  (No value the programs below leave in the global scope refers to
\* another scope.)
Collect(heap) == SubSeq(heap, 1, 1)

\* evalProgram's loop body for one top-level statement: a ReturnValue is
\* unwrapped and ends the program.
unwrapProgram(s) == IF ~Halted(s) /\ s.res.type = "RETURN_VALUE" THEN Return(WithRes(s, s.res.v)) ELSE s

\* The program's state after the statement, and the record of the statement.
Commit(node, s) ==
    /\ scopes' = Collect(s.scopes)
    /\ importCache' = s.importCache
    /\ evalCount' = s.evalCount
    /\ serial' = s.serial
    /\ exit' = s.exit
    /\ last' = [ctx |-> ctx, heap |-> s.scopes, res |-> s.res, out |-> s.out, node |-> node, pre |-> scopes, cache |-> importCache]
    /\ ctx' = ctx

Step(node) == ~exit.halted /\ Commit(node, unwrapProgram(Eval(node, Global, St)))

Init ==
    /\ scopes = <<NewEnvironment>>
    /\ importCache = [k \in {} |-> NULL]
    /\ evalCount = [m \in DOMAIN Files |-> 0]
    /\ serial = 0
    /\ exit = Running
    /\ last = [ctx |-> Background, heap |-> <<NewEnvironment>>, res |-> NIL, out |-> <<>>, node |-> NoNode, pre |-> <<NewEnvironment>>, cache |-> [k \in {} |-> NULL]]
    /\ ctx = Background

(***************************************************************************)
(* Programs over the environment: let, mutable, assignment, postfix,       *)
(* foreach and function calls.                                             *)
(***************************************************************************)
Names == {"x", "y"}
Vals == {Integer(1), String(<<"a">>)}

\* A block is what makes `mutable` legal where a statement stands.
InBlock(stmt) == IfExpression(Literal(TRUE_OBJ), BlockStatement(<<stmt>>), NoNode)

AssignNodes == {AssignStatement(n, "=", Literal(v)) : n \in Names, v \in Vals} \cup {AssignStatement("x", "+=", Literal(Integer(1)))}
PostfixNodes == {PostfixExpression(op, "x") : op \in {"++", "--"}}
MutableNodes == {MutableStatement(n, Literal(v)) : n \in Names, v \in Vals}
LetNodes == {LetStatement(n, Literal(v)) : n \in Names, v \in Vals}

\* Statements of a loop or function body.
BodyStmts == AssignNodes \cup {PostfixExpression("++", "x")} \cup {MutableStatement("y", Literal(Integer(1)))}

\* The arrays a foreach runs over.
Iterables == {Array(<<String(<<"b">>), Integer(0)>>), Array(<<>>)}

\* foreach ident[, index] in arr { stmt; ident }
ForeachNodes == {ForeachStatement(id, ix, Literal(arr), BlockStatement(<<b, Identifier(id)>>)) : id \in {"x"}, ix \in {"", "y"}, arr \in Iterables, b \in BodyStmts}

\* fn() { stmt; name }()
CallNodes == {CallExpression(FunctionLiteral(<<>>, <<>>, BlockStatement(<<b, Identifier(n)>>)), <<>>) : b \in BodyStmts, n \in {"x"}}

TopLet == \E node \in LetNodes : Step(node)
TopMutable == \E node \in MutableNodes : Step(InBlock(node))
TopAssign == \E node \in AssignNodes : Step(node)
TopPostfix == \E node \in PostfixNodes : Step(node)
TopForeach == \E node \in ForeachNodes : Step(node)
TopCall == \E node \in CallNodes : Step(node)

Next == TopLet \/ TopMutable \/ TopAssign \/ TopPostfix \/ TopForeach \/ TopCall

Spec == Init /\ [][Next]_vars

(***************************************************************************)
(* Properties of assignment, foreach and postfix.                          *)
(***************************************************************************)
\* What the global scope binds before and after the statement evaluated last.
Before(name) == Lookup(last.pre, Global, name)
After(name) == Lookup(scopes, Global, name)

\* The binding of name in the global scope is what it was.
Unchanged(name) == After(name) = Before(name)

IsForeach == last.node.kind = "ForeachStatement"
IsCall == last.node.kind = "CallExpression"

\* The first statement of the body of the foreach or of the called function.
BodyStmt == IF IsForeach THEN last.node.body.statements[1] ELSE last.node.function.body.statements[1]

\* The loop variables of the foreach evaluated last.
LoopVars == {last.node.ident} \cup (IF last.node.index # "" THEN {last.node.index} ELSE {})

\* The foreach evaluated last ran its body at least once.
Iterated == IsForeach /\ Len(last.node.value.value.v) > 0

IsPlainAssign(node) == node.kind = "AssignStatement" /\ node.operator = "="

\* `name = expr` was evaluated in the global scope: as a statement of its
\* own, or in the body of a foreach, whose temporary scope hands the write on.
AssignedInScope(a) ==
    \/ last.node = a
    \/ Iterated /\ BodyStmt = a /\ a.name \notin LoopVars

\* `name = expr` was evaluated in the scope of a function called from the
\* global scope, followed by a read of the name.
AssignedInCall(a) == IsCall /\ BodyStmt = a /\ last.node.function.body.statements[2] = Identifier(a.name)

WrittenName(b) == IF b.kind = "PostfixExpression" THEN b.token ELSE b.name

\* C3: inside a foreach body a write to a name that is not a loop variable
\* lands in the enclosing scope and is visible there after the loop (where
\* the enclosing binding is immutable the program aborts instead); a write
\* to a loop variable lands in the loop's temporary scope and leaves the
\* enclosing scope's binding of that name as it was.
C3_ForeachWrites ==
    Iterated =>
        LET b == BodyStmt
            n == WrittenName(b)
        IN IF n \in LoopVars
           THEN /\ Unchanged(n)
                /\ (b.kind = "MutableStatement" /\ ~exit.halted) =>
                      Lookup(last.heap, Len(last.heap), n).scope = Len(last.heap)
           ELSE IF Before(n).ok /\ Before(n).readonly THEN exit.halted /\ Unchanged(n)
           ELSE IF b.kind = "MutableStatement" \/ Before(n).ok
                THEN ~exit.halted /\ After(n).ok /\ After(n).scope = Global /\ After(n).val = b.value.value
                ELSE exit.halted /\ ~After(n).ok

\* C3 witness: a foreach whose body assigns to a name that is no loop
\* variable has run and the enclosing scope holds the new value.
C3_Witness ==
    /\ Iterated /\ ~exit.halted
    /\ BodyStmt.kind = "AssignStatement" /\ BodyStmt.name \notin LoopVars
    /\ After(BodyStmt.name).val = BodyStmt.value.value
    /\ Before(BodyStmt.name).val # BodyStmt.value.value

\* The postfix statement evaluated in the global scope, or first in the body
\* of a function called from there and followed by a read of the name.
PostfixInScope(p) == last.node = p
PostfixInCall(p) == IsCall /\ BodyStmt = p /\ last.node.function.body.statements[2] = Identifier(p.token)

AssignedUnbound(a) ==
    /\ IsPlainAssign(a) /\ ~Before(a.name).ok
    /\ \/ last.node = a
       \/ Iterated /\ BodyStmt = a /\ a.name \notin LoopVars
       \/ IsCall /\ BodyStmt = a

\* C17: `name = expr` where no enclosing scope binds name ends the program
\* with status 1, and no scope binds name afterwards.
C17_AssignUnknownAborts ==
    \A a \in AssignNodes :
        AssignedUnbound(a) =>
            /\ exit.halted /\ ~exit.panic /\ exit.code = 1
            /\ \A i \in 1..Len(last.heap) : a.name \notin DOMAIN last.heap[i].store

\* C17 witness: an assignment to an unbound name, first in the body of a
\* called function, has ended the program with status 1.
C17_Witness ==
    \E a \in AssignNodes :
        AssignedUnbound(a) /\ IsCall /\ exit.halted /\ exit.code = 1 /\ ~After(a.name).ok

(***************************************************************************)
(* Programs of expressions: ranges, division and remainder, conditions.    *)
(***************************************************************************)
IntegerLiteral(n) == Literal(Integer(n))

Range(a, b) == InfixExpression("..", IntegerLiteral(a), IntegerLiteral(b))

\* (a / b) * b + (a % b) == a
DivModIdentity(a, b) == InfixExpression("==", InfixExpression("+", InfixExpression("*", InfixExpression("/", IntegerLiteral(a), IntegerLiteral(b)), IntegerLiteral(b)), InfixExpression("%", IntegerLiteral(a), IntegerLiteral(b))), IntegerLiteral(a))

Falsy == {FALSE_OBJ, NULL, String(<<>>), Integer(0), Float(0), Array(<<>>), Hash(<<>>)}
Truthy == {TRUE_OBJ, String(<<"a">>), Integer(1), Integer(0 - 1), Float(5), Array(<<Integer(0)>>), Hash(<<<<String(<<"k">>), Integer(0)>>>>)}
Conditions == Falsy \cup Truthy

Then == String(<<"t">>)
Else == String(<<"e">>)

\* if (v) { "t" } else { "e" }
IfNode(v) == IfExpression(Literal(v), BlockStatement(<<Literal(Then)>>), BlockStatement(<<Literal(Else)>>))

\* for (v) { return "t" }
ForNode(v) == ForLoopExpression(Literal(v), BlockStatement(<<ReturnStatement(Literal(Then))>>))

\* for (i) { i-- }
CountDown == ForLoopExpression(Identifier("i"), BlockStatement(<<PostfixExpression("--", "i")>>))

\* !!v
BangBang(v) == PrefixExpression("!", PrefixExpression("!", Literal(v)))

ArithRange == \E a \in Int64, b \in Int64 : Step(Range(a, b))
ArithDivMod == \E a \in Int64, b \in Int64 : Step(DivModIdentity(a, b))
ArithIf == \E v \in Conditions : Step(IfNode(v))
ArithFor == \E v \in Conditions : Step(ForNode(v))
ArithBang == \E v \in Conditions : Step(BangBang(v))
ArithMutable == \E v \in {Integer(0), Integer(1), FALSE_OBJ} : Step(MutableStatement("i", Literal(v)))
ArithCountDown == Step(CountDown)

NextArith == ArithRange \/ ArithDivMod \/ ArithIf \/ ArithFor \/ ArithBang \/ ArithMutable \/ ArithCountDown

SpecArith == Init /\ [][NextArith]_vars

\* The Integers of the Array that the evaluation of `a..b` is claimed to give.
Sequence(a, b) == Array([k \in 1 .. (b - a + 1) |-> Integer(a + k - 1)])

\* C5 as claimed: for all Integers a <= b, `a..b` is the Array of length
\* b - a + 1 whose element at index i is the Integer a + i.
C5_RangeAllPairs ==
    \A a \in Int64, b \in Int64 :
        (a <= b /\ last.node = Range(a, b)) => ~exit.halted /\ last.res = Sequence(a, b)

\* C5 as amended: for Integers a <= b whose length b - a + 1 is itself an
\* Integer (at most MaxInt), `a..b` is the Array of length b - a + 1 whose
\* element at index i is a + i; for a <= b with b - a + 1 beyond MaxInt the
\* computed length has wrapped: the result is the empty Array when it
\* wrapped to 0 (a = MinInt, b = MaxInt) and the process crashes otherwise.
C5_RangeRepresentableLength ==
    \A a \in Int64, b \in Int64 :
        (a <= b /\ last.node = Range(a, b)) =>
            IF b - a + 1 <= MaxInt THEN ~exit.halted /\ last.res = Sequence(a, b)
            ELSE IF b - a + 1 = Modulus THEN ~exit.halted /\ last.res = Array(<<>>)
            ELSE exit.panic

\* C5 witness: a range of several elements has been built.
C5_Witness == \E a \in Int64, b \in Int64 : a + 2 <= b /\ last.node = Range(a, b) /\ last.res = Sequence(a, b)

\* C6 as claimed: for all Integers a, b with b < a, `a..b` evaluates to an
\* empty Array and the evaluation does not fail or crash.
C6_ReversedRangeEmpty ==
    \A a \in Int64, b \in Int64 :
        (b < a /\ last.node = Range(a, b)) => ~exit.halted /\ last.res = Array(<<>>)

\* C7: for all Integers a and b with b # 0 the program
\* `(a / b) * b + (a % b) == a` evaluates to true, the arithmetic wrapping
\* to the integer width.
C7_DivModIdentity ==
    \A a \in Int64, b \in Int64 :
        (b # 0 /\ last.node = DivModIdentity(a, b)) => ~exit.halted /\ last.res = TRUE_OBJ

\* C7 witness: the identity has been evaluated to true for the smallest
\* Integer divided by -1, and for a negative dividend with a remainder.
C7_Witness ==
    \/ last.node = DivModIdentity(MinInt, 0 - 1) /\ last.res = TRUE_OBJ
    \/ last.node = DivModIdentity(0 - 3, 2) /\ last.res = TRUE_OBJ

\* C8 as claimed: the condition of an if expression and of a for loop is
\* falsy exactly when its value is False, Null, the empty String, Integer 0,
\* Float 0.0, the empty Array or the empty Hash: then the alternative runs
\* (the loop ends without running its body); for every other value the
\* consequent runs (the loop body runs).
C8_ConditionTruthiness ==
    \A v \in Conditions :
        /\ last.node = IfNode(v) => last.res = (IF v \in Falsy THEN Else ELSE Then)
        /\ last.node = ForNode(v) => last.res = (IF v \in Falsy THEN TRUE_OBJ ELSE Then)

\* C9 as claimed: `!!x` is true when x is none of False, Null, the empty
\* String, 0, 0.0, the empty Array, the empty Hash, and false when it is one.
C9_BangBangTruthiness ==
    \A v \in Conditions :
        last.node = BangBang(v) => last.res = nativeBoolToBooleanObject(v \notin Falsy)

\* C9 as amended: `!!x` is false exactly when x is False or Null, and true
\* for every other value, the empty String, 0, 0.0, the empty Array and the
\* empty Hash included.
C9_BangBangCoarse ==
    \A v \in Conditions :
        last.node = BangBang(v) => ~exit.halted /\ last.res = nativeBoolToBooleanObject(v \notin {FALSE_OBJ, NULL})

\* C9 witness: `!!0` has been evaluated to true.
C9_Witness == last.node = BangBang(Integer(0)) /\ last.res = TRUE_OBJ

(***************************************************************************)
(* Programs that resolve members: bindings named "<type>.<member>" and     *)
(* "object.<member>", and index expressions with a String key.             *)
(***************************************************************************)
\* function() { n }
FnNode(n) == FunctionLiteral(<<>>, <<>>, BlockStatement(<<IntegerLiteral(n)>>))

\* function() { self }
SelfNode == FunctionLiteral(<<>>, <<>>, BlockStatement(<<Identifier("self")>>))

MethodBindings ==
    {<<"array.f", FnNode(1)>>, <<"hash.f", IntegerLiteral(2)>>, <<"object.f", FnNode(3)>>, <<"object.f", IntegerLiteral(3)>>,
     <<"array.len", IntegerLiteral(0 - 1)>>, <<"object.len", IntegerLiteral(0 - 2)>>, <<"object.me", SelfNode>>}

Receivers ==
    {Array(<<Integer(0)>>), String(<<"a">>), Hash(<<>>), Hash(<<<<String(<<"f">>), Integer(0)>>>>), Integer(2),
     Module("m", Hash(<<<<String(<<"v">>), Integer(1)>>>>), 1)}

Members == {<<"f">>, <<"l", "e", "n">>, <<"g">>, <<"m", "e">>}

\* receiver.member
Member(recv, member) == IndexExpression(Literal(recv), Literal(String(member)))

MethodBind == \E b \in MethodBindings : Step(LetStatement(b[1], b[2]))
MethodResolve == \E recv \in Receivers, member \in Members : Step(Member(recv, member))
MethodInvoke == \E recv \in Receivers : Step(CallExpression(Member(recv, <<"m", "e">>), <<>>))

NextMethod == MethodBind \/ MethodResolve \/ MethodInvoke

SpecMethod == Init /\ [][NextMethod]_vars

\* The value is what resolving to the binding gives: the binding itself, or
\* for a Function its clone, in a scope of its own that binds self to the
\* receiver.
ResolvesTo(val, binding, recv) ==
    IF binding.type = "FUNCTION"
    THEN /\ val.type = "FUNCTION"
         /\ val.v.body = binding.v.body
         /\ val.v.env # binding.v.env
         /\ Lookup(last.heap, val.v.env, "self").val = recv
    ELSE val = binding

\* The precedence: native method, then "<type>.<member>", then
\* "object.<member>"; unresolved holds of the result when none of them exists.
Precedence(recv, member, unresolved) ==
    LET typed == LowerType(recv.type) \o "." \o GoString(member)
        general == "object." \o GoString(member)
    IN IF GoString(member) \in NativeMethods(recv.type) THEN last.res = GetMethod(recv, GoString(member))
       ELSE IF Before(typed).ok THEN ResolvesTo(last.res, Before(typed).val, recv)
       ELSE IF Before(general).ok THEN ResolvesTo(last.res, Before(general).val, recv)
       ELSE unresolved

\* C4 as claimed: `receiver.member` is the receiver's native method when one
\* exists; otherwise the binding named "<type>.<member>" when it exists;
\* otherwise the binding named "object.<member>": for every receiver.
C4_PrecedenceAnyReceiver ==
    \A recv \in Receivers, member \in Members :
        last.node = Member(recv, member) => Precedence(recv, member, TRUE)

\* C4 as amended: a Hash that holds the member as a key gives the paired
\* value, and a Module is resolved as the Hash of its exports (so its typed
\* binding is "hash.<member>"); in every other case `receiver.member` is the
\* receiver's native method when one exists, otherwise the binding named
\* "<type>.<member>" when it exists, otherwise the binding named
\* "object.<member>", otherwise Null (an Error where the receiver is of no
\* indexable type).
C4_PrecedenceAfterOwnKeys ==
    \A recv \in Receivers, member \in Members :
        last.node = Member(recv, member) =>
            LET r == IF recv.type = "MODULE" THEN recv.v.attrs ELSE recv
                own == IF r.type = "HASH" THEN HashGet(r.v, String(member)) ELSE NIL
            IN ~exit.halted /\ (IF own # NIL THEN last.res = own
                                ELSE Precedence(r, member, IF r.type \in {"ARRAY", "HASH", "STRING"} THEN last.res = NULL ELSE isError(last.res)))

\* C4 witness: with both "array.f" and "object.f" bound, `[0].f` has
\* resolved to the clone of "array.f".
C4_Witness ==
    /\ last.node = Member(Array(<<Integer(0)>>), <<"f">>)
    /\ Before("array.f").ok /\ Before("object.f").ok
    /\ last.res.type = "FUNCTION" /\ last.res.v.body = FnNode(1).body

\* The receiver as the method sees it: of a Module, the Hash of its exports.
Self(recv) == IF recv.type = "MODULE" THEN recv.v.attrs ELSE recv

\* C25: when `receiver.member` resolves to a user Function, the result is a
\* clone of the bound Function whose environment is a scope made by the
\* resolution, a child of the Function's captured environment that binds
\* self to the receiver and nothing else; the bound Function and the
\* captured environment are what they were, and no self is bound there: a
\* method that returns self gives the receiver it was resolved on, whatever
\* was resolved before.
C25_MethodCloneIsolated ==
    /\ "self" \notin DOMAIN scopes[Global].store
    /\ \A recv \in Receivers, member \in Members :
          (last.node = Member(recv, member) /\ last.res.type = "FUNCTION") =>
              LET env == last.res.v.env IN
              /\ ~exit.halted
              /\ env > Len(last.pre) /\ env <= Len(last.heap)
              /\ last.heap[env].store = Bind(EmptyStore, "self", Self(recv), FALSE)
              /\ \E prefix \in {LowerType(Self(recv).type), "object"} :
                    LET b == Before(prefix \o "." \o GoString(member)) IN
                    b.ok /\ b.val = [last.res EXCEPT !.v.env = last.heap[env].outer]
              /\ scopes = last.pre
    /\ \A recv \in Receivers :
          (last.node = CallExpression(Member(recv, <<"m", "e">>), <<>>) /\ Before("object.me").ok) =>
              ~exit.halted /\ last.res = Self(recv) /\ scopes = last.pre

\* C25 witness: `[0].f` has resolved to a clone of the Function bound to
\* "array.f" whose own scope binds self to [0], and the global scope, which
\* that Function captured, binds no self.
C25_Witness ==
    /\ last.node = Member(Array(<<Integer(0)>>), <<"f">>)
    /\ Before("array.f").ok /\ Before("array.f").val.type = "FUNCTION"
    /\ last.res.type = "FUNCTION" /\ last.res.v.env > Len(last.pre)
    /\ Lookup(last.heap, last.res.v.env, "self").val = Array(<<Integer(0)>>)
    /\ ~Lookup(scopes, Before("array.f").val.v.env, "self").ok

(***************************************************************************)
(* Programs that import modules.                                           *)
(***************************************************************************)
\* The literal paths the programs import: the files, and one that is none.
ImportPaths == DOMAIN Files \cup {"z"}

\* The module files that exist and parse.
Parsing == {f \in DOMAIN Files : Files[f].status = "ok"}

ImportTop == \E path \in ImportPaths : Step(ImportOf(path))
ImportLet == \E n \in Names, path \in ImportPaths : Step(LetStatement(n, ImportOf(path)))
ImportMember == \E n \in Names : Step(IndexExpression(Identifier(n), Literal(String(<<"v">>))))

NextImport == ImportTop \/ ImportLet \/ ImportMember

SpecImport == Init /\ [][NextImport]_vars

\* C1 as claimed: for a module file that exists and parses, every
\* evaluation of `import "m"` returns the one Module value of m, and the
\* source of m is evaluated at most once over the whole run.
C1_ImportOnce ==
    \A path \in Parsing :
        /\ evalCount[path] <= 1
        /\ last.node = ImportOf(path) =>
              /\ ~exit.halted
              /\ last.res.type = "MODULE"
              /\ path \in DOMAIN importCache /\ last.res = importCache[path]

\* The paths whose file is not found, cannot be read or does not parse.
Failing == ImportPaths \ Parsing

\* C15: an import of a module whose file is not found, cannot be read or
\* does not parse yields an Error value (which a let binds like any value),
\* the program is not aborted, and the module cache is what it was: no
\* failing path is ever a key of the cache.
C15_ImportFailureIsValue ==
    \A path \in Failing :
        /\ path \notin DOMAIN importCache
        /\ last.node = ImportOf(path) => ~exit.halted /\ isError(last.res) /\ importCache = last.cache
        /\ \A n \in Names :
              last.node = LetStatement(n, ImportOf(path)) =>
                  ~exit.halted /\ isError(After(n).val) /\ importCache = last.cache

\* C15 witness: with a module already in the cache, an import of a module
\* that is not found, is unreadable or does not parse has given an Error.
C15_Witness ==
    \E path \in Failing :
        /\ last.node = ImportOf(path) /\ isError(last.res) /\ ~exit.halted
        /\ DOMAIN importCache # {} /\ importCache = last.cache

\* The statements of the programs that import the path.
Importing(path) == {ImportOf(path)} \cup {LetStatement(n, ImportOf(path)) : n \in Names}

\* C30 as claimed: the evaluation of an import of any path comes to an end
\* with a value, also when the files import each other or a file imports
\* itself (the process is not ended by an exhausted stack), and no file is
\* evaluated again while it is being evaluated.
C30_ImportTerminates ==
    \A path \in ImportPaths :
        last.node \in Importing(path) =>
            /\ ~exit.panic /\ ~exit.hang
            /\ \A f \in Parsing : evalCount[f] <= 1

(***************************************************************************)
(* Programs that make, pass on and raise errors: error(...), panic(...),   *)
(* functions that return an Error, and calls of what is no function.       *)
(***************************************************************************)
MessageKey == String(<<"m", "e", "s", "s", "a", "g", "e">>)
CodeKey == String(<<"c", "o", "d", "e">>)

\* The codes the programs give their errors.
Codes == {0 - 1, 0, 3}

\* Arguments from which error() builds an Error, and arguments it refuses.
ErrorArgs ==
    {String(<<"m">>), Hash(<<<<MessageKey, String(<<"m">>)>>>>)}
    \cup {Hash(<<<<MessageKey, String(<<"m">>)>>, <<CodeKey, Integer(c)>>>>) : c \in Codes}
    \cup {Hash(<<<<CodeKey, Integer(c)>>>>) : c \in Codes}
BadErrorArgs == {Integer(1), Hash(<<<<MessageKey, Integer(1)>>>>), Hash(<<<<CodeKey, String(<<"a">>)>>>>)}

\* error(arg) and panic(arg)
ErrorOf(arg) == CallExpression(Identifier("error"), <<Literal(arg)>>)
PanicOf(arg) == CallExpression(Identifier("panic"), <<arg>>)

\* function() { n }() and function() { return n }()
Yield(n) == CallExpression(FunctionLiteral(<<>>, <<>>, BlockStatement(<<Identifier(n)>>)), <<>>)
YieldReturn(n) == CallExpression(FunctionLiteral(<<>>, <<>>, BlockStatement(<<ReturnStatement(Identifier(n))>>)), <<>>)

ErrorLet == \E n \in Names, a \in ErrorArgs \cup BadErrorArgs : Step(LetStatement(n, ErrorOf(a)))
ErrorLetImport == \E n \in Names : Step(LetStatement(n, ImportOf("z")))
ErrorMake == \E a \in ErrorArgs \cup BadErrorArgs : Step(ErrorOf(a))
ErrorMakeNone == Step(CallExpression(Identifier("error"), <<>>))
ErrorPanic == \E n \in Names : Step(PanicOf(Identifier(n)))
ErrorPanicMake == \E a \in ErrorArgs : Step(PanicOf(ErrorOf(a)))
ErrorPanicValue == \E v \in Vals : Step(PanicOf(Literal(v)))
ErrorYield == \E n \in Names : Step(Yield(n)) \/ Step(YieldReturn(n))
ErrorApply == \E n \in Names : Step(CallExpression(Identifier(n), <<>>))
ErrorApplyValue == \E v \in Vals : Step(CallExpression(Literal(v), <<>>))

NextError ==
    \/ ErrorLet \/ ErrorLetImport \/ ErrorMake \/ ErrorMakeNone \/ ErrorPanic \/ ErrorPanicMake
    \/ ErrorPanicValue \/ ErrorYield \/ ErrorApply \/ ErrorApplyValue

SpecError == Init /\ [][NextError]_vars

\* The call expression of the statement evaluated last: the statement itself
\* or the value of its let.
TheCall == IF last.node.kind = "LetStatement" THEN last.node.value ELSE last.node

\* The callee of TheCall was evaluated to a value that is no Error, so that
\* the arguments were evaluated and ApplyFunction was called.
Applied ==
    /\ TheCall.kind = "CallExpression"
    /\ TheCall.function.kind = "Identifier" =>
          (TheCall.function.name \in builtins \/ (Before(TheCall.function.name).ok /\ ~isError(Before(TheCall.function.name).val)))

\* The exit code an Error stands for: its code, 1 when it has none.
CodeOf(err) == IF err.v.hasCode THEN err.v.code ELSE 1

\* C11: when the result of a call is an Error that no built-in raised, the
\* program ends with the Error's code, 1 when it has none; when a built-in
\* raised it, the program goes on and the call expression's value is that
\* Error.
C11_CallErrorAborts ==
    (Applied /\ last.res.type = "ERROR") =>
        IF last.res.v.builtinCall
        THEN ~exit.halted
        ELSE exit.halted /\ ~exit.panic /\ exit.code = CodeOf(last.res)

\* C11 witness: a call has returned an Error that no built-in raised and
\* the program has ended with status 1.
C11_Witness ==
    /\ Applied /\ last.res.type = "ERROR" /\ ~last.res.v.builtinCall
    /\ exit.halted /\ exit.code = 1

\* C12: panic(e) for an Error e ends the program with e's code when e has
\* one and with 1 otherwise, so panic(error({"message": m, "code": c}))
\* ends it with c; for an argument that is no Error panic does not end the
\* program itself: it returns the Error "panic expected an error!".
C12_PanicExitCode ==
    /\ \A n \in Names :
          (last.node = PanicOf(Identifier(n)) /\ Before(n).ok /\ isError(Before(n).val)) =>
              exit.halted /\ ~exit.panic /\ exit.code = CodeOf(Before(n).val)
    /\ \A c \in Codes :
          last.node = PanicOf(ErrorOf(Hash(<<<<MessageKey, String(<<"m">>)>>, <<CodeKey, Integer(c)>>>>))) =>
              exit.halted /\ ~exit.panic /\ exit.code = c
    /\ \A a \in ErrorArgs :
          (last.node = PanicOf(ErrorOf(a)) /\ HashGet(IF a.type = "HASH" THEN a.v ELSE <<>>, CodeKey) = NIL) =>
              exit.halted /\ ~exit.panic /\ exit.code = 1
    /\ \A v \in Vals :
          last.node = PanicOf(Literal(v)) => last.res = Error("panic expected an error!")

\* C12 witness: panic of a bound Error with code 3 has ended the program
\* with status 3.
C12_Witness ==
    \E n \in Names :
        /\ last.node = PanicOf(Identifier(n))
        /\ Before(n).ok /\ isError(Before(n).val) /\ Before(n).val.v.hasCode /\ Before(n).val.v.code = 3
        /\ exit.halted /\ exit.code = 3

(***************************************************************************)
(* Programs that build and print text: string literals with {{...}}        *)
(* fragments and calls of print.                                           *)
(***************************************************************************)
\* "x={{n}}"
Fragment(n) == StringLiteral(<<"x", "=", "{", "{", n, "}", "}">>)

\* Other texts: an escaped match, a match that is not closed, an expression,
\* an empty match, two matches.
Templates ==
    {<<"\\", "{", "{", n, "}", "}">> : n \in Names}
    \cup {<<"{", "{", n>> : n \in Names}
    \cup {<<"{", "{", n, "}", "}", "{", "{", m, "}", "}">> : n \in Names, m \in Names}
    \cup {<<"x", "=", "{", "{", "1", "+", "2", "}", "}">>, <<"{", "{", "}", "}">>}

\* The values print is called with: among them Strings that hold a
\* backslash, one that Unquote accepts and one that it refuses.
PrintVals == {Integer(1), Integer(0 - 2), NULL, String(<<"a">>), String(<<"a", "\\", "n">>), String(<<"\\", "q">>)}
PrintArgs == {<<>>} \cup {<<v>> : v \in PrintVals} \cup {<<v, w>> : v \in PrintVals, w \in PrintVals}

\* print(a1, ..., an)
PrintOf(args) == CallExpression(Identifier("print"), [i \in 1..Len(args) |-> Literal(args[i])])

TextLet == \E n \in Names, v \in Vals : Step(LetStatement(n, Literal(v)))
TextFragment == \E n \in Names : Step(Fragment(n))
TextTemplate == \E t \in Templates : Step(StringLiteral(t))
TextPrintFragment == \E n \in Names : Step(CallExpression(Identifier("print"), <<Fragment(n)>>))
TextPrint == \E args \in PrintArgs : Step(PrintOf(args))

NextText == TextLet \/ TextFragment \/ TextTemplate \/ TextPrintFragment \/ TextPrint

SpecText == Init /\ [][NextText]_vars

\* C13 as claimed: a string literal with a fragment {{n}}, where n is not
\* bound and is no built-in, evaluates to the text with the fragment
\* replaced by nothing, and the program is not aborted.
C13_UnboundFragmentEmpty ==
    \A n \in Names :
        (last.node = Fragment(n) /\ ~Before(n).ok /\ n \notin builtins) =>
            ~exit.halted /\ last.res = String(<<"x", "=">>)

\* The inspection of every argument from the i-th on, each followed by one
\* space.
RECURSIVE Spaced(_, _)
Spaced(args, i) == IF i > Len(args) THEN <<>> ELSE Inspect(args[i]) \o <<" ">> \o Spaced(args, i + 1)

\* C14 as claimed: for every argument list print writes the inspection of
\* every argument, in order, each followed by one space, and then one
\* newline, also when an argument other than the last is a String that
\* holds a backslash.
C14_PrintEveryArgument ==
    \A args \in PrintArgs :
        last.node = PrintOf(args) => ~exit.halted /\ last.out = Spaced(args, 1) \o <<"\n">>

(***************************************************************************)
(* Batch runs: main calls Execute on the text of the program.  The lexer   *)
(* and the parser are outside the model: a source is the program that      *)
(* ParseProgram builds from it and the errors the parser has collected.    *)
(***************************************************************************)
\* The embedded standard library, taken to define nothing.
Stdlib == Program(<<>>)

\* The state of a process that has just been started.
Started == [scopes |-> <<NewEnvironment>>, importCache |-> [k \in {} |-> NULL], evalCount |-> [m \in DOMAIN Files |-> 0], serial |-> 0, exit |-> Running, res |-> NIL, out |-> <<>>, depth |-> 0]

\* parser.PrintParserErrors(params): the errors are reported on params.Out,
\* on standard error when no Out is given, and the call returns (in the
\* REPL the loop goes on behind it).
PrintParserErrors(st, errors) == st

\* Execute returns 0 and main returns: the process ends with status 0.
exitZero(s) == IF Halted(s) THEN s ELSE Return(s)

\* The end of Execute: the standard library and then the user's program are
\* evaluated in env.
evalBoth(s1, program) == exitZero(Eval(program, Global, Eval(Stdlib, Global, s1)))

Execute(st, source) ==
    evalBoth(IF Len(source.errors) # 0 THEN PrintParserErrors(st, source.errors) ELSE st, source.program)

\* The statements of the programs that are run.
BatchStmts == LetNodes \cup {PrintOf(<<Integer(1)>>), Identifier("x"), AssignStatement("x", "=", Literal(Integer(1)))}

\* Sources of at most two statements, without and with a parse error.
Sources ==
    {[program |-> Program(stmts), errors |-> errs] :
        stmts \in {<<>>} \cup {<<a>> : a \in BatchStmts} \cup {<<a, b>> : a \in BatchStmts, b \in BatchStmts},
        errs \in {<<>>, <<"expected next token to be )">>}}

\* `keai -e source` and `keai file`: one process from its start to its end.
BatchRun == \E source \in Sources : Commit(source, Execute(Started, source))

NextBatch == BatchRun

SpecBatch == Init /\ [][NextBatch]_vars

CancelStmts == LetNodes \cup AssignNodes \cup PostfixNodes

\* The owner of the context cancels it.
CancelRequest == ctx = Background /\ ctx' = Canceled /\ UNCHANGED <<scopes, importCache, evalCount, serial, exit, last>>

\* A call evalContext(ctx, node, env).
CancelEnter == \E node \in CancelStmts : ~exit.halted /\ Commit(node, evalContext(ctx, node, Global, St))

\* The next statement of a program whose evaluation, begun by
\* evalContext(ctx, program, env), is in progress.
CancelChild == \E node \in CancelStmts : Step(node)

NextCancel == CancelRequest \/ CancelEnter \/ CancelChild

SpecCancel == Init /\ [][NextCancel]_vars

\* C18 as claimed: once the context given to the evaluator is cancelled,
\* every node evaluated afterwards, the child nodes of a node in progress
\* included, gives an Error with the reason of the cancellation and is not
\* evaluated any further.
C18_CancelShortCircuits ==
    (last.node # NoNode /\ last.ctx # Background) =>
        ~exit.halted /\ last.res = Error(last.ctx) /\ scopes = last.pre

(***************************************************************************)
(* Programs with the logical operators && and ||.                          *)
(***************************************************************************)
LogicOps == {"&&", "||"}

\* l && x++ and l || x++ : the right operand has a side effect.
Guarded(op, l) == InfixExpression(op, Literal(l), PostfixExpression("++", "x"))

\* l && r and l || r
Logic(op, l, r) == InfixExpression(op, Literal(l), Literal(r))

LogicMutable == \E v \in {Integer(0), Integer(1)} : Step(InBlock(MutableStatement("x", Literal(v))))
LogicGuarded == \E op \in LogicOps, l \in Conditions : Step(Guarded(op, l))
LogicPair == \E op \in LogicOps, l \in Conditions, r \in Conditions : Step(Logic(op, l, r))

NextLogic == LogicMutable \/ LogicGuarded \/ LogicPair

SpecLogic == Init /\ [][NextLogic]_vars

\* C19 as claimed: in `l && r` the right operand is not evaluated when l is
\* falsy, and in `l || r` it is not evaluated when l is truthy: with x++ as
\* the right operand, x keeps its value.
C19_ShortCircuit ==
    \A op \in LogicOps, l \in Conditions :
        (/\ last.node = Guarded(op, l)
         /\ Before("x").ok /\ Before("x").val.type = "INTEGER"
         /\ (op = "&&" /\ l \in Falsy) \/ (op = "||" /\ l \in Truthy)) =>
            Unchanged("x")

\* C20 as claimed: for operands of any two types `l && r` is true exactly
\* when both are truthy and `l || r` exactly when one of them is, and no
\* pair of operand types makes either an error.
C20_LogicOnTruthiness ==
    \A op \in LogicOps, l \in Conditions, r \in Conditions :
        last.node = Logic(op, l, r) =>
            /\ ~exit.halted
            /\ last.res = nativeBoolToBooleanObject(IF op = "&&" THEN l \in Truthy /\ r \in Truthy ELSE l \in Truthy \/ r \in Truthy)

(***************************************************************************)
(* Programs that call with an argument whose evaluation yields an Error.   *)
(***************************************************************************)
\* error("m"): an argument that evaluates to an Error.
Failed == ErrorOf(String(<<"m">>))

\* print, and function(a, b) { print(1); 7 }
Callees == {Identifier("print"), FunctionLiteral(<<"a", "b">>, <<>>, BlockStatement(<<PrintOf(<<Integer(1)>>), Literal(Integer(7))>>))}

\* The argument lists: x++ marks what is evaluated behind or before the
\* failing argument, and a read of y ends the program where y is not bound.
ArgLists ==
    {<<Failed>>, <<Failed, PostfixExpression("++", "x")>>, <<PostfixExpression("++", "x"), Failed>>,
     <<Failed, Identifier("y")>>, <<Literal(Integer(1)), PostfixExpression("++", "x")>>}

ArgsMutable == \E n \in Names, v \in {Integer(0), Integer(1)} : Step(InBlock(MutableStatement(n, Literal(v))))
ArgsCall == \E f \in Callees, args \in ArgLists : Step(CallExpression(f, args))

NextArgs == ArgsMutable \/ ArgsCall

SpecArgs == Init /\ [][NextArgs]_vars

\* C21 as claimed: when an argument of a call evaluates to an Error, no
\* later argument is evaluated (x++ behind it leaves x as it was), the
\* callee is not invoked (nothing is printed) and the value of the call
\* expression is that Error.
C21_ArgumentErrorEndsCall ==
    \A f \in Callees, args \in ArgLists :
        (/\ last.node = CallExpression(f, args)
         /\ Before("x").ok /\ Before("x").val.type = "INTEGER"
         /\ \E i \in 1..Len(args) : args[i] = Failed) =>
            /\ ~exit.halted
            /\ args[1] = Failed => Unchanged("x")
            /\ last.out = <<>>
            /\ last.res = errorFn(<<String(<<"m">>)>>)

(***************************************************************************)
(* Programs with a foreach whose body ends in a return or in an Error.     *)
(***************************************************************************)
\* The arrays the loops run over: up to three elements.
LoopArrays ==
    {Array(<<>>)} \cup {Array(<<a>>) : a \in Vals} \cup {Array(<<a, b>>) : a \in Vals, b \in Vals}
    \cup {Array(<<a, b, c>>) : a \in Vals, b \in Vals, c \in Vals}

\* What the body ends in: `return v`, an Error made by error("m"), the Error
\* of `u++` for an unbound u, and a value that is neither.
Returning == {ReturnStatement(Identifier("v"))}
Erring == {Failed, PostfixExpression("++", "u")}
Endings == Returning \cup Erring \cup {Identifier("v")}

\* foreach v[, index] in arr { x++; ending } : x counts the iterations.
Counting(ix, arr, ending) == ForeachStatement("v", ix, Literal(arr), BlockStatement(<<PostfixExpression("++", "x"), ending>>))

LoopMutable == \E v \in {Integer(0), Integer(1)} : Step(InBlock(MutableStatement("x", Literal(v))))
LoopForeach == \E ix \in {"", "y"}, arr \in LoopArrays, ending \in Endings : Step(Counting(ix, arr, ending))

NextLoop == LoopMutable \/ LoopForeach

SpecLoop == Init /\ [][NextLoop]_vars

\* C22 as claimed: when the body of a foreach evaluates to a ReturnValue or
\* to an Error in its first iteration, the body has run once and no more,
\* and that ReturnValue (which ends the program with the returned value) or
\* that Error is the value of the foreach.
C22_ForeachEndsOnReturnOrError ==
    \A ix \in {"", "y"}, arr \in LoopArrays, ending \in Returning \cup Erring :
        (/\ last.node = Counting(ix, arr, ending)
         /\ Len(arr.v) > 0
         /\ Before("x").ok /\ Before("x").val.type = "INTEGER") =>
            /\ After("x").val = Integer(Wrap(Before("x").val.v + 1))
            /\ ending \in Returning => exit.halted /\ exit.code = 0 /\ last.res = arr.v[1]
            /\ ending \in Erring => ~exit.halted /\ isError(last.res)

(***************************************************************************)
(* Programs that call a function whose parameter has a default value.      *)
(***************************************************************************)
\* The default-value expressions: one that prints, one that reads y (which
\* ends the program where y is not bound) and a literal.
DefaultExprs == {PrintOf(<<Integer(1)>>), Identifier("y"), Literal(Integer(2))}

\* function(a = d) { a }(args)
WithDefault(d, args) == CallExpression(FunctionLiteral(<<"a">>, <<<<"a", d>>>>, BlockStatement(<<Identifier("a")>>)), args)

DefaultLet == \E n \in Names, v \in Vals : Step(LetStatement(n, Literal(v)))
DefaultOmitted == \E d \in DefaultExprs : Step(WithDefault(d, <<>>))
DefaultSupplied == \E d \in DefaultExprs, v \in Vals : Step(WithDefault(d, <<Literal(v)>>))

NextDefault == DefaultLet \/ DefaultOmitted \/ DefaultSupplied

SpecDefault == Init /\ [][NextDefault]_vars

\* C23 as claimed: when the parameter is supplied positionally it is bound
\* to the argument and its default expression is not evaluated: nothing is
\* printed and the program is not ended by it; when it is not supplied the
\* default expression is evaluated at the call and the parameter is bound
\* to its value.
C23_DefaultOnlyWhenOmitted ==
    \A d \in DefaultExprs :
        /\ \A v \in Vals :
              last.node = WithDefault(d, <<Literal(v)>>) => ~exit.halted /\ last.out = <<>> /\ last.res = v
        /\ (last.node = WithDefault(d, <<>>) /\ d = Identifier("y") /\ Before("y").ok) =>
              ~exit.halted /\ last.res = Before("y").val

(***************************************************************************)
(* Programs that call functions whose body returns from inside an if, a    *)
(* for or a foreach.                                                       *)
(***************************************************************************)
\* { return v }
Returns(v) == BlockStatement(<<ReturnStatement(Literal(v))>>)

\* The bodies: `return v`; `if (true) { return v }`; and `return` of an if,
\* of a for and of a foreach that holds `return v`.
ReturnBodies ==
    UNION {{Returns(v),
            BlockStatement(<<IfExpression(Literal(TRUE_OBJ), Returns(v), NoNode)>>),
            BlockStatement(<<ReturnStatement(IfExpression(Literal(TRUE_OBJ), Returns(v), NoNode))>>),
            BlockStatement(<<ReturnStatement(ForLoopExpression(Literal(TRUE_OBJ), Returns(v)))>>),
            BlockStatement(<<ReturnStatement(ForeachStatement("i", "", Literal(Array(<<Integer(0)>>)), Returns(v)))>>)} : v \in Vals}

\* function() body ()
CallOf(body) == CallExpression(FunctionLiteral(<<>>, <<>>, body), <<>>)

\* function(a) { 0 }(arg)
PassTo(arg) == CallExpression(FunctionLiteral(<<"a">>, <<>>, BlockStatement(<<Literal(Integer(0))>>)), <<arg>>)

ReturnCall == \E body \in ReturnBodies : Step(CallOf(body))
ReturnLet == \E n \in Names, body \in ReturnBodies : Step(LetStatement(n, CallOf(body)))
ReturnPass == \E body \in ReturnBodies : Step(PassTo(CallOf(body)))

NextReturn == ReturnCall \/ ReturnLet \/ ReturnPass

SpecReturn == Init /\ [][NextReturn]_vars

\* C24 as claimed: the value of a call expression, every value bound to a
\* name and every value passed as an argument is no ReturnValue; so no
\* statement of these programs, which have no return outside a function,
\* ends the program.
C24_ReturnValueNeverEscapes ==
    /\ ~exit.halted
    /\ last.res.type # "RETURN_VALUE"
    /\ \A i \in 1..Len(last.heap) : \A n \in DOMAIN last.heap[i].store : last.heap[i].store[n].val.type # "RETURN_VALUE"

(***************************************************************************)
(* Programs with infix operators and augmented assignments on operands of  *)
(* every pair of types.                                                    *)
(***************************************************************************)
OpVals == {Integer(1), Integer(2), String(<<"a">>), TRUE_OBJ, NULL}
InfixOps == {"+", "-", "*", "/", "<"}
AugmentedOps == {"+=", "-=", "*=", "/="}
\* Length of a String beyond which the programs do not append to it.
MaxStringLen == 2

\* The binary operator an augmented assignment computes with.
Binary(op) == CASE op = "+=" -> "+" [] op = "-=" -> "-" [] op = "*=" -> "*" [] op = "/=" -> "/"

\* Whether the operator is one the language defines for the operands: the
\* arithmetic and the comparison on two Integers, + and the comparison on
\* two Strings, the comparison on two Booleans.
Defined(op, l, r) ==
    \/ l.type = "INTEGER" /\ r.type = "INTEGER"
    \/ l.type = "STRING" /\ r.type = "STRING" /\ op \in {"+", "<"}
    \/ l.type = "BOOLEAN" /\ r.type = "BOOLEAN" /\ op = "<"

OpsMutable == \E v \in OpVals : Step(InBlock(MutableStatement("x", Literal(v))))
OpsInfix == \E op \in InfixOps, l \in OpVals, r \in OpVals : Step(InfixExpression(op, Literal(l), Literal(r)))
\* x is no String of more than MaxStringLen runes.
Short == LET g == Lookup(scopes, Global, "x") IN (g.ok /\ g.val.type = "STRING") => Len(g.val.v) < MaxStringLen

OpsAugmented == \E op \in AugmentedOps, r \in OpVals : Short /\ Step(AssignStatement("x", op, Literal(r)))

NextOps == OpsMutable \/ OpsInfix \/ OpsAugmented

SpecOps == Init /\ [][NextOps]_vars

\* C26 as claimed: an infix operation, and an augmented assignment to a
\* bound name, whose operator is not defined for the types of its operands
\* ends the program with status 1, and the augmented assignment leaves the
\* binding of its target as it was.
C26_UndefinedOperationFatal ==
    /\ \A op \in InfixOps, l \in OpVals, r \in OpVals :
          (last.node = InfixExpression(op, Literal(l), Literal(r)) /\ ~Defined(op, l, r)) =>
              exit.halted /\ ~exit.panic /\ exit.code = 1
    /\ \A op \in AugmentedOps, r \in OpVals :
          (last.node = AssignStatement("x", op, Literal(r)) /\ Before("x").ok /\ ~Defined(Binary(op), Before("x").val, r)) =>
              exit.halted /\ ~exit.panic /\ exit.code = 1 /\ Unchanged("x")

(***************************************************************************)
(* Programs that index a String with an Integer.                           *)
(***************************************************************************)
\* The texts: among them two with a rune of two bytes.
IndexTexts == {<<>>, <<"a">>, <<"a", "b">>, <<"é">>, <<"é", "a">>}

\* "text"[i]
At(text, i) == IndexExpression(Literal(String(text)), IntegerLiteral(i))

IndexLet == \E n \in Names, text \in IndexTexts : Step(LetStatement(n, Literal(String(text))))
IndexText == \E text \in IndexTexts, i \in Int64 : Step(At(text, i))
IndexName == \E n \in Names, i \in Int64 : Step(IndexExpression(Identifier(n), IntegerLiteral(i)))

NextIndex == IndexLet \/ IndexText \/ IndexName

SpecIndex == Init /\ [][NextIndex]_vars

\* The single-rune String at rune index i, Null where the text has no such
\* rune.
RuneAt(text, i) == IF 0 <= i /\ i < Len(text) THEN String(<<text[i + 1]>>) ELSE NULL

\* C27 as claimed: for every String of n runes and every Integer i, `s[i]`
\* is the single-rune String of the i-th rune when 0 <= i < n and Null
\* otherwise, and no index crashes the evaluator.
C27_StringIndexTotal ==
    /\ \A text \in IndexTexts, i \in Int64 :
          last.node = At(text, i) => ~exit.halted /\ last.res = RuneAt(text, i)
    /\ \A n \in Names, i \in Int64 :
          (last.node = IndexExpression(Identifier(n), IntegerLiteral(i)) /\ Before(n).ok) =>
              ~exit.halted /\ last.res = RuneAt(Before(n).val.v, i)

(***************************************************************************)
(* Programs with closures: functions that read a name they do not bind.    *)
(***************************************************************************)
\* function() { x }
Reader == FunctionLiteral(<<>>, <<>>, BlockStatement(<<Identifier("x")>>))

\* function(x) { f() }(v): the caller of f binds x itself.
Via(v) == CallExpression(FunctionLiteral(<<"x">>, <<>>, BlockStatement(<<CallExpression(Identifier("f"), <<>>)>>)), <<Literal(v)>>)

\* function(x) { function() { x } }(v)(): the inner function is made in the
\* scope of the call of the outer one and called from the global scope.
Nested(v) == CallExpression(CallExpression(FunctionLiteral(<<"x">>, <<>>, BlockStatement(<<Reader>>)), <<Literal(v)>>), <<>>)

\* function() { let g = function() { x }; mutable x = v; g() }(): x is bound
\* in the scope g has captured after g was made.
Late(v) == CallOf(BlockStatement(<<LetStatement("g", Reader), MutableStatement("x", Literal(v)), CallExpression(Identifier("g"), <<>>)>>))

ClosureMutable == \E v \in Vals : Step(InBlock(MutableStatement("x", Literal(v))))
ClosureLet == \E n \in Names, v \in Vals : Step(LetStatement(n, Literal(v)))
ClosureAssign == \E v \in Vals : Step(AssignStatement("x", "=", Literal(v)))
ClosureDefine == Step(LetStatement("f", Reader))
ClosureCall == Step(CallExpression(Identifier("f"), <<>>))
ClosureVia == \E v \in Vals : Step(Via(v))
ClosureNested == \E v \in Vals : Step(Nested(v))
ClosureLate == \E v \in Vals : Step(Late(v))

NextClosure == ClosureMutable \/ ClosureLet \/ ClosureAssign \/ ClosureDefine \/ ClosureCall \/ ClosureVia \/ ClosureNested \/ ClosureLate

SpecClosure == Init /\ [][NextClosure]_vars

\* f is bound to a function made in the global scope.
Defined_f == Before("f").ok /\ Before("f").val = Function(<<>>, <<>>, Reader.body, Global)

\* What a read of x in the global scope gave before the statement: its
\* value, or the end of the program where x was not bound.
ReadsGlobal == IF Before("x").ok THEN ~exit.halted /\ last.res = Before("x").val ELSE exit.halted /\ exit.code = 1

\* C28: a function body resolves its free names in the environment in which
\* the function literal was evaluated, whatever the caller binds, and it
\* sees that environment as it is at the call: f made in the global scope
\* reads the global x as it is now, also when its caller binds an x of its
\* own; a function made in the scope of a call reads that call's x when it
\* is called from the global scope, and a binding made in the captured
\* scope after the function was made is seen by a later call.
C28_LexicalByReference ==
    /\ (last.node = CallExpression(Identifier("f"), <<>>) /\ Defined_f) => ReadsGlobal
    /\ \A v \in Vals :
          /\ (last.node = Via(v) /\ Defined_f) => ReadsGlobal
          /\ last.node = Nested(v) => ~exit.halted /\ last.res = v
          /\ last.node = Late(v) => ~exit.halted /\ last.res = v

\* C28 witness: f, made while x was not bound or held another value, was
\* called by a function whose parameter x is bound to a third thing, and has
\* given the value the global x holds now.
C28_Witness ==
    \E v \in Vals :
        /\ last.node = Via(v) /\ Defined_f
        /\ Before("x").ok /\ Before("x").val # v
        /\ ~exit.halted /\ last.res = Before("x").val

(***************************************************************************)
(* The REPL (repl.Start): one session environment, one line at a time.     *)
(* As for batch runs a line is the program the parser builds from it and   *)
(* the errors the parser has collected.  The lines of the model are lines  *)
(* whose evaluation does not come to utils.ExitConditionally.              *)
(***************************************************************************)
\* io.WriteString(out, evaluated.Inspect()); io.WriteString(out, "\n")
writeValue(s1) == IF Halted(s1) \/ s1.res = NIL THEN s1 ELSE Write(s1, Inspect(s1.res) \o <<"\n">>)

\* The body of the loop of Start for a line that was read: a line with parse
\* errors is handed to PrintParserErrors and the loop continues; any other
\* line is evaluated in the session's environment and its value is written.
replStep(st, source) ==
    IF Len(source.errors) # 0 THEN PrintParserErrors(st, source.errors)
    ELSE writeValue(Eval(source.program, Global, st))

\* What Readline can return instead of a line.
EOF == [kind |-> "io.EOF"]
ErrInterrupt(line) == [kind |-> "readline.ErrInterrupt", line |-> line]

\* The statements typed: let statements, reads of a name, and String index
\* expressions.
ReplStmts == LetNodes \cup {Identifier(n) : n \in Names} \cup {At(text, i) : text \in {<<>>, <<"a">>}, i \in {0, 1}}

ReplSources == {[program |-> Program(<<stmt>>), errors |-> errs] : stmt \in ReplStmts, errs \in {<<>>, <<"expected next token to be )">>}}

\* No statement of the line reads a name that is not bound.
Closed(source) == \A i \in 1..Len(source.program.statements) :
    source.program.statements[i].kind = "Identifier" => Lookup(scopes, Global, source.program.statements[i].name).ok

ReplLine == \E source \in ReplSources : ~exit.halted /\ Closed(source) /\ Commit(source, replStep(St, source))
\* An interrupt ends the loop when the line is empty and is skipped otherwise.
ReplInterrupt == \E line \in {<<>>, <<"l">>} : ~exit.halted /\ Commit(ErrInterrupt(line), IF Len(line) = 0 THEN Return(St) ELSE St)
ReplEOF == ~exit.halted /\ Commit(EOF, Return(St))

NextRepl == ReplLine \/ ReplInterrupt \/ ReplEOF

SpecRepl == Init /\ [][NextRepl]_vars

\* The line read last was evaluated and is a let of the name.
Written(n) == \E v \in Vals : last.node = [program |-> Program(<<LetStatement(n, Literal(v))>>), errors |-> <<>>]

\* C29 as claimed: a line with parse errors is not evaluated, leaves the
\* environment of the session as it was and the loop goes on; what an
\* earlier line has bound stays bound, until a line binds the name anew, and
\* a later line reads it; the loop has ended only after the end of input or
\* an interrupt on an empty line.
C29_ReplGoesOn ==
    /\ \A source \in ReplSources :
          (last.node = source /\ Len(source.errors) # 0) => ~exit.halted /\ scopes = last.pre /\ last.out = <<>>
    /\ \A n \in DOMAIN last.pre[Global].store : Written(n) \/ After(n) = Before(n)
    /\ \A n \in Names :
          last.node = [program |-> Program(<<Identifier(n)>>), errors |-> <<>>] =>
              ~exit.halted /\ last.out = Inspect(Before(n).val) \o <<"\n">>
    /\ exit.halted => last.node \in {EOF, ErrInterrupt(<<>>)}
====
